---- MODULE Spec2Model ----
(***************************************************************************)
(* Model of the X-Diff engine of ajankovic/xdiff: the xtree node model     *)
(* (AppendChild, Remove, CalculateSignature, CalculateHash, Prepare, Stack)*)
(* and xdiff.Compare (reduceMatchingSpace, the post-order match driver,    *)
(* match, the global assignment and editScript).                           *)
(*                                                                         *)
(* Representation.                                                         *)
(*  - A *xtree.Node is an index into the sequence `nodes`; nil is 0.       *)
(*  - A []byte is a sequence of atoms.  An atom is a TLA+ string that      *)
(*    stands for a fixed non-empty run of bytes without '/'; no atom used  *)
(*    is a prefix of another, so two atom sequences are equal exactly when *)
(*    the byte strings they stand for are equal.  "/" is the byte 0x2f.    *)
(*  - A SHA-1 digest is modelled as an injective function of the bytes     *)
(*    written to the hash: the record of the type byte, the bytes of       *)
(*    Name followed by Value, and the sequence of the children's digests   *)
(*    (each a fixed 20-byte block).  The empty []byte of an unprepared     *)
(*    node is NoHash.                                                      *)
(*  - Go leaves the iteration order of a map unspecified and sort.Sort is  *)
(*    not stable: wherever the code ranges over a map or sorts by cost,    *)
(*    the model takes any order the cost order allows.                     *)
(***************************************************************************)
EXTENDS Integers, Sequences, FiniteSets, TLC

\* ------------------------------------------------------------------------
\* Bounds of the scenario family explored by Init.
\* ------------------------------------------------------------------------
MaxKids == 2
\* The number of nodes the tree-editing specification builds trees from.
MaxNodes == 3

\* maxStackSize of xtree.Stack.
maxStackSize == 10000

nil == 0

\* ------------------------------------------------------------------------
\* xtree.NodeType and NodeType.Signature (the stringer name of the type).
\* ------------------------------------------------------------------------
Document == "Document"
Element == "Element"
Attribute == "Attribute"
Data == "Data"
Declaration == "Declaration"

TypeSignature(t) == <<t>>

NoBytes == <<>>
NoHash == [type |-> "", data |-> <<>>, kids |-> <<>>]

\* A comparison that never finds two byte slices equal.
bytesEqualNever(a, b) == FALSE

bytesEqual(a, b) == a = b

\* ------------------------------------------------------------------------
\* Node constructors (xtree.NewDocument, NewElement, NewAttribute, NewData,
\* NewDeclaration): every link nil, Hash and Signature empty.
\* ------------------------------------------------------------------------
NewNode(t, name, value) ==
    [Type |-> t, Parent |-> nil, FirstChild |-> nil, NextSibling |-> nil,
     PrevSiblingCyclic |-> nil, Name |-> name, Value |-> value,
     Hash |-> NoHash, Signature |-> NoBytes]

NewDocument(name) == NewNode(Document, name, NoBytes)
NewElement(name) == NewNode(Element, name, NoBytes)
NewAttribute(name, value) == NewNode(Attribute, name, value)
NewData(value) == NewNode(Data, NoBytes, value)
NewDeclaration == NewNode(Declaration, <<"xml">>, NoBytes)

\* Node.LastChild
LastChild(ns, n) ==
    IF ns[n].FirstChild = nil THEN nil
    ELSE ns[ns[n].FirstChild].PrevSiblingCyclic

\* Node.AppendChild
AppendChild(ns, n, child) ==
    LET linked ==
          IF ns[n].FirstChild = nil
          THEN [ns EXCEPT ![n].FirstChild = child,
                          ![child].PrevSiblingCyclic = child]
          ELSE LET last == LastChild(ns, n)
                   a == [ns EXCEPT ![child].PrevSiblingCyclic = last]
                   b == [a EXCEPT ![LastChild(a, n)].NextSibling = child]
               IN [b EXCEPT ![b[n].FirstChild].PrevSiblingCyclic = child]
    IN [linked EXCEPT ![child].Parent = n]

\* Node.Remove without lines 900-902: the cyclic link of the next sibling is
\* left as it was.
RemoveNoRelink(ns, n) ==
    LET a == IF ns[n].Parent # nil /\ ns[ns[n].Parent].FirstChild = n
             THEN [ns EXCEPT ![ns[n].Parent].FirstChild = ns[n].NextSibling]
             ELSE ns
        c == IF a[a[n].PrevSiblingCyclic].NextSibling = n
             THEN [a EXCEPT ![a[n].PrevSiblingCyclic].NextSibling =
                                a[n].NextSibling]
             ELSE a
    IN [c EXCEPT ![n].NextSibling = nil,
                 ![n].PrevSiblingCyclic = nil,
                 ![n].Parent = nil]

\* Node.Remove.  The code dereferences n.PrevSiblingCyclic without a nil
\* check; Remove is only applied to nodes that were appended to a parent,
\* whose PrevSiblingCyclic is set.
Remove(ns, n) ==
    LET a == IF ns[n].Parent # nil /\ ns[ns[n].Parent].FirstChild = n
             THEN [ns EXCEPT ![ns[n].Parent].FirstChild = ns[n].NextSibling]
             ELSE ns
        b == IF a[n].NextSibling # nil
             THEN [a EXCEPT ![a[n].NextSibling].PrevSiblingCyclic =
                                a[n].PrevSiblingCyclic]
             ELSE a
        c == IF b[b[n].PrevSiblingCyclic].NextSibling = n
             THEN [b EXCEPT ![b[n].PrevSiblingCyclic].NextSibling =
                                b[n].NextSibling]
             ELSE b
    IN [c EXCEPT ![n].NextSibling = nil,
                 ![n].PrevSiblingCyclic = nil,
                 ![n].Parent = nil]

\* Node.Children
RECURSIVE SiblingsFrom(_, _)
SiblingsFrom(ns, n) ==
    IF n = nil THEN <<>> ELSE <<n>> \o SiblingsFrom(ns, ns[n].NextSibling)

Children(ns, n) == SiblingsFrom(ns, ns[n].FirstChild)

\* ------------------------------------------------------------------------
\* Node.CalculateSignature
\* ------------------------------------------------------------------------
\* bytes.Join(parts, sep)
RECURSIVE Join(_, _)
Join(parts, sep) ==
    IF Len(parts) = 0 THEN <<>>
    ELSE IF Len(parts) = 1 THEN parts[1]
    ELSE parts[1] \o sep \o Join(Tail(parts), sep)

\* The loop of lines 864-866 appending, not prepending, the parent's name.
RECURSIVE AncestorNamesLeafFirst(_, _)
AncestorNamesLeafFirst(ns, parent) ==
    IF parent = nil THEN <<>>
    ELSE <<ns[parent].Name>> \o AncestorNamesLeafFirst(ns, ns[parent].Parent)

\* The names of the ancestors of n, root first (the loop of lines 864-866).
RECURSIVE AncestorNames(_, _)
AncestorNames(ns, parent) ==
    IF parent = nil THEN <<>>
    ELSE Append(AncestorNames(ns, ns[parent].Parent), ns[parent].Name)

\* CalculateSignature without the loop over the parents.
CalculateSignatureOwnOnly(ns, n) ==
    IF ns[n].Parent # nil
    THEN IF Len(ns[n].Name) > 0
         THEN [ns EXCEPT ![n].Signature =
                  Join(<<ns[n].Name, TypeSignature(ns[n].Type)>>, <<"/">>)]
         ELSE [ns EXCEPT ![n].Signature = Join(<<TypeSignature(ns[n].Type)>>, <<"/">>)]
    ELSE [ns EXCEPT ![n].Signature = <<"/">>]

CalculateSignature(ns, n) ==
    LET sig == AncestorNames(ns, ns[n].Parent)
    IN IF ns[n].Parent # nil
       THEN IF Len(ns[n].Name) > 0
            THEN [ns EXCEPT ![n].Signature =
                     Join(sig \o <<ns[n].Name, TypeSignature(ns[n].Type)>>, <<"/">>)]
            ELSE [ns EXCEPT ![n].Signature =
                     Join(sig \o <<TypeSignature(ns[n].Type)>>, <<"/">>)]
       ELSE [ns EXCEPT ![n].Signature = <<"/">>]

\* ------------------------------------------------------------------------
\* Node.CalculateHash: digest of type byte, Name, Value and the children's
\* current Hash fields in sibling order.
\* ------------------------------------------------------------------------
RECURSIVE ChildHashes(_, _)
ChildHashes(ns, next) ==
    IF next = nil THEN <<>>
    ELSE <<ns[next].Hash>> \o ChildHashes(ns, ns[next].NextSibling)

\* CalculateHash on a digest that is not reset: what the node's previous
\* hash was computed from is still in it.
CalculateHashNoReset(ns, n) ==
    [ns EXCEPT ![n].Hash =
        [type |-> ns[n].Type,
         data |-> ns[n].Name \o ns[n].Value,
         kids |-> <<ns[n].Hash>> \o ChildHashes(ns, ns[n].FirstChild)]]

CalculateHash(ns, n) ==
    [ns EXCEPT ![n].Hash =
        [type |-> ns[n].Type,
         data |-> ns[n].Name \o ns[n].Value,
         kids |-> ChildHashes(ns, ns[n].FirstChild)]]

\* ------------------------------------------------------------------------
\* xtree.Stack
\* ------------------------------------------------------------------------
\* Stack.Push: the stack after the call (unchanged when it is full).
Push(s, i) == IF Len(s) = maxStackSize THEN s ELSE Append(s, i)
\* Stack.Push: the boolean it returns.
PushOk(s) == Len(s) # maxStackSize
\* A Pop whose node is dropped.
PopNodeNone(s) == nil

\* Stack.Pop: the node returned (nil on an empty stack) and the stack left.
PopNode(s) == IF Len(s) = 0 THEN nil ELSE s[Len(s)]
Pop(s) == IF Len(s) = 0 THEN s ELSE SubSeq(s, 1, Len(s) - 1)
\* Stack.Peek (only called on a non-empty stack in the loops modelled).
Peek(s) == s[Len(s)]
IsEmpty(s) == Len(s) = 0

\* ------------------------------------------------------------------------
\* xtree.Prepare: iterative post-order walk setting Signature and Hash.
\* The result is the node store and the error ("nil" or "depth").
\* ------------------------------------------------------------------------
\* One iteration of the loop of lines 931-948 on the locals st; err is ""
\* while the loop runs and the returned error afterwards.
PrepareIteration(st) ==
    IF st.err # "" THEN st
    ELSE IF ~(~IsEmpty(st.s) \/ st.n # nil) THEN [st EXCEPT !.err = "nil"]
    ELSE IF st.n # nil
    THEN IF ~PushOk(st.s) THEN [st EXCEPT !.err = "depth"]
         ELSE [st EXCEPT !.s = Push(st.s, st.n),
                         !.n = st.nodes[st.n].FirstChild]
    ELSE LET peekNode == Peek(st.s)
         IN IF st.nodes[peekNode].NextSibling # nil
               /\ st.lastVisited # st.nodes[peekNode].NextSibling
            THEN [st EXCEPT !.n = st.nodes[peekNode].NextSibling]
            ELSE [st EXCEPT
                    !.nodes = CalculateHash(
                                CalculateSignature(st.nodes, peekNode), peekNode),
                    !.lastVisited = PopNode(st.s),
                    !.s = Pop(st.s)]

\* k iterations of the loop, or fewer when it ends before.  The iterations
\* are split in halves so that a long walk does not nest deeply.
RECURSIVE PrepareLoop(_, _)
PrepareLoop(st, k) ==
    IF st.err # "" THEN st
    ELSE IF k <= 1 THEN PrepareIteration(st)
    ELSE PrepareLoop(PrepareLoop(st, k \div 2), k - (k \div 2))

\* The loop pushes, moves on from and pops each node at most once, and tests
\* its condition once more at the end.
Prepare(ns, n) ==
    LET end == PrepareLoop([nodes |-> ns, s |-> <<>>, n |-> n,
                            lastVisited |-> nil, err |-> ""],
                           3 * Len(ns) + 1)
    IN [nodes |-> end.nodes, err |-> end.err]

\* ------------------------------------------------------------------------
\* xdiff: Operation, Delta, nodePair, minCostMatch, distTable.
\* ------------------------------------------------------------------------
Insert == "Insert"
Update == "Update"
Delete == "Delete"
InsertSubtree == "InsertSubtree"
DeleteSubtree == "DeleteSubtree"

\* Delta.  `call` is a history field that is not in the code: the arguments
\* (left, right) of the editScript invocation that appended the delta.
Delta(op, subject, object, call) ==
    [Operation |-> op, Subject |-> subject, Object |-> object, call |-> call]

nodePair(left, right) == <<left, right>>

\* HasLeft reading the right node of the pairs.
HasLeftOnRight(mcm, n) == \E p \in mcm : p[2] = n

\* minCostMatch.HasLeft / HasRight
HasLeft(mcm, n) == \E p \in mcm : p[1] = n
HasRight(mcm, n) == \E p \in mcm : p[2] = n

\* Add without its loop over the parents.
ParentPairsNone(ns, leftParent, rightParent) == {}

\* The pairs (leftParent, rightParent), ... that the loop of Add inserts.
RECURSIVE ParentPairs(_, _, _)
ParentPairs(ns, leftParent, rightParent) ==
    IF leftParent # nil /\ rightParent # nil
    THEN {nodePair(leftParent, rightParent)}
           \cup ParentPairs(ns, ns[leftParent].Parent, ns[rightParent].Parent)
    ELSE {}

\* minCostMatch.Add
Add(ns, mcm, match) ==
    IF match \notin mcm /\ ~HasLeft(mcm, match[1]) /\ ~HasRight(mcm, match[2])
    THEN mcm \cup {match}
             \cup ParentPairs(ns, ns[match[1]].Parent, ns[match[2]].Parent)
    ELSE mcm

\* distTable.Has, distTable.Set and the map read distTbl[pair], which
\* yields 0 for a missing key.
Has(dt, pair) == pair \in DOMAIN dt
Set(dt, pair, cost) ==
    [p \in (DOMAIN dt) \cup {pair} |-> IF p = pair THEN cost ELSE dt[p]]
Get(dt, pair) == IF pair \in DOMAIN dt THEN dt[pair] ELSE 0

\* ------------------------------------------------------------------------
\* reduceMatchingSpace
\* ------------------------------------------------------------------------
\* A loop that also removes the last candidate.
RECURSIVE RemoveCandidatesAll(_, _, _)
RemoveCandidatesAll(ns, candidates, i) ==
    IF i <= Len(candidates)
    THEN RemoveCandidatesAll(
           Remove(Remove(ns, candidates[i][1]), candidates[i][2]),
           candidates, i + 1)
    ELSE ns

\* The loop of lines 224-227.
RECURSIVE RemoveCandidates(_, _, _)
RemoveCandidates(ns, candidates, i) ==
    IF i <= Len(candidates) - 1
    THEN RemoveCandidates(
           Remove(Remove(ns, candidates[i][1]), candidates[i][2]),
           candidates, i + 1)
    ELSE ns

RECURSIVE reduceMatchingSpace(_, _, _)
RECURSIVE reduceLoop(_, _, _, _)
\* The loop of lines 210-223: the store and the candidates it ends with.
reduceLoop(ns, l, r, candidates) ==
    IF l # nil /\ r # nil
    THEN LET leftNext == ns[l].NextSibling
             rightNext == ns[r].NextSibling
         IN IF (ns[l].Type = Element /\ ns[r].Type = Element)
                /\ bytesEqual(ns[l].Signature, ns[r].Signature)
            THEN IF bytesEqual(ns[l].Hash, ns[r].Hash)
                 THEN reduceLoop(ns, leftNext, rightNext,
                                 Append(candidates, nodePair(l, r)))
                 ELSE reduceLoop(reduceMatchingSpace(ns, l, r),
                                 leftNext, rightNext, candidates)
            ELSE reduceLoop(ns, leftNext, rightNext, candidates)
    ELSE [nodes |-> ns, candidates |-> candidates]

reduceMatchingSpace(ns, left, right) ==
    LET res == reduceLoop(ns, ns[left].FirstChild, ns[right].FirstChild, <<>>)
    IN RemoveCandidates(res.nodes, res.candidates, 1)

\* ------------------------------------------------------------------------
\* match
\* ------------------------------------------------------------------------
costPair(pair, cost) == [Left |-> pair[1], Right |-> pair[2], Cost |-> cost]

\* The elements that may come first after sort.Sort(costs): those of least
\* Cost (Less compares Cost only and the sort is not stable).
SortFirst(costs) == {c \in costs : \A d \in costs : c.Cost <= d.Cost}

\* The sum of the Cost fields of a set of cost pairs.
RECURSIVE SumCost(_)
SumCost(costs) ==
    IF costs = {} THEN 0
    ELSE LET c == CHOOSE d \in costs : TRUE IN c.Cost + SumCost(costs \ {c})

\* The loop of lines 287-298 without the two continue statements: every
\* pair of costs is accepted.
GreedyAll(costs, usedLeft, usedRight, dist, mapped) ==
    {[dist |-> dist + SumCost(costs), mapped |-> mapped + Cardinality(costs)]}

\* The loop of lines 287-298 over the sorted costs: the possible values of
\* (dist, mapped) after it.  A pair whose Left or Right is used is skipped
\* wherever it stands, so it is dropped at once.
RECURSIVE Greedy(_, _, _, _, _)
Greedy(costs, usedLeft, usedRight, dist, mapped) ==
    LET live == {c \in costs : c.Left \notin usedLeft /\ c.Right \notin usedRight}
    IN IF live = {} THEN {[dist |-> dist, mapped |-> mapped]}
       ELSE UNION {Greedy(live \ {c}, usedLeft \cup {c.Left},
                          usedRight \cup {c.Right}, dist + c.Cost, mapped + 1)
                   : c \in SortFirst(live)}

SeqToSet(s) == {s[i] : i \in DOMAIN s}

\* The costs of lines 268-280: every pair of a left and a right child with
\* the same signature, with the distance read from distTbl.
ChildCosts(ns, l, r, distTbl) ==
    {costPair(nodePair(leftCh, rightCh), Get(distTbl, nodePair(leftCh, rightCh))) :
        <<leftCh, rightCh>> \in
            {q \in SeqToSet(Children(ns, l)) \X SeqToSet(Children(ns, r)) :
                ns[q[1]].Signature = ns[q[2]].Signature}}

\* match without the case of two leaves of lines 241-244.
matchNoUpdateCase(ns, l, r, distTbl, minCostM) ==
    LET pair == nodePair(l, r)
        same == {[distTbl |-> distTbl, minCostM |-> minCostM]}
        set(d) == [distTbl |-> Set(distTbl, pair, d), minCostM |-> minCostM]
    IN IF ~bytesEqual(ns[l].Signature, ns[r].Signature) THEN same
       ELSE IF bytesEqual(ns[l].Hash, ns[r].Hash)
       THEN {[distTbl |-> Set(distTbl, pair, 0),
              minCostM |-> Add(ns, minCostM, pair)]}
       ELSE IF ns[l].FirstChild = nil /\ ns[r].FirstChild # nil
       THEN {set(Len(Children(ns, r)))}
       ELSE IF ns[r].FirstChild = nil /\ ns[l].FirstChild # nil
       THEN {set(Len(Children(ns, l)))}
       ELSE LET leftCount == Len(Children(ns, l))
                rightCount == Len(Children(ns, r))
            IN {set(g.dist + leftCount + rightCount - 2 * g.mapped) :
                   g \in Greedy(ChildCosts(ns, l, r, distTbl), {}, {}, 0, 0)}

\* match(l, r, distTbl, minCostM): the possible (distTbl, minCostM) after the
\* call.
match(ns, l, r, distTbl, minCostM) ==
    LET pair == nodePair(l, r)
        same == {[distTbl |-> distTbl, minCostM |-> minCostM]}
        set(d) == [distTbl |-> Set(distTbl, pair, d), minCostM |-> minCostM]
    IN IF ~bytesEqual(ns[l].Signature, ns[r].Signature) THEN same
       ELSE IF bytesEqual(ns[l].Hash, ns[r].Hash)
       THEN {[distTbl |-> Set(distTbl, pair, 0),
              minCostM |-> Add(ns, minCostM, pair)]}
       ELSE IF ns[l].FirstChild = nil /\ ns[r].FirstChild = nil
       THEN {set(1)}
       ELSE IF ns[l].FirstChild = nil
       THEN {set(Len(Children(ns, r)))}
       ELSE IF ns[r].FirstChild = nil
       THEN {set(Len(Children(ns, l)))}
       ELSE LET leftCount == Len(Children(ns, l))
                rightCount == Len(Children(ns, r))
            IN {set(g.dist + leftCount + rightCount - 2 * g.mapped) :
                   g \in Greedy(ChildCosts(ns, l, r, distTbl), {}, {}, 0, 0)}

\* The child pairs the loops of lines 268-280 read from distTbl in
\* match(l, r) and find no entry of (c := distTbl[pair] is then 0).
MissingReads(ns, l, r, dt) ==
    IF /\ bytesEqual(ns[l].Signature, ns[r].Signature)
       /\ ~bytesEqual(ns[l].Hash, ns[r].Hash)
       /\ ns[l].FirstChild # nil /\ ns[r].FirstChild # nil
    THEN {q \in SeqToSet(Children(ns, l)) \X SeqToSet(Children(ns, r)) :
            ns[q[1]].Signature = ns[q[2]].Signature /\ ~Has(dt, q)}
    ELSE {}

\* matchLog after the call match(l, r, dt, _).
Logged(log, ns, l, r, dt) ==
    [once |-> log.once \cup {nodePair(l, r)},
     again |-> log.again \cup ({nodePair(l, r)} \cap log.once),
     missing |-> log.missing \cup MissingReads(ns, l, r, dt)]

\* ------------------------------------------------------------------------
\* editScript
\* ------------------------------------------------------------------------
RECURSIVE editScript(_, _, _, _)
RECURSIVE editLeft(_, _, _, _, _)
RECURSIVE editInner(_, _, _, _, _)
RECURSIVE editRight(_, _, _, _)

\* The inner loop without the comparison of the hashes of line 322.
editInnerNoHashTest(ns, l, r, minCostM, call) ==
    IF r = nil THEN <<>>
    ELSE (IF nodePair(l, r) \in minCostM
          THEN IF ns[l].FirstChild = nil /\ ns[r].FirstChild = nil
               THEN <<Delta(Update, l, r, call)>>
               ELSE editScript(ns, l, r, minCostM)
          ELSE <<>>)
         \o editInner(ns, l, ns[r].NextSibling, minCostM, call)

\* The inner loop of lines 318-330 for one left child l, from right child r.
editInner(ns, l, r, minCostM, call) ==
    IF r = nil THEN <<>>
    ELSE (IF nodePair(l, r) \in minCostM
          THEN IF ns[l].FirstChild = nil /\ ns[r].FirstChild = nil
               THEN IF bytesEqual(ns[l].Hash, ns[r].Hash) THEN <<>>
                    ELSE <<Delta(Update, l, r, call)>>
               ELSE editScript(ns, l, r, minCostM)
          ELSE <<>>)
         \o editInner(ns, l, ns[r].NextSibling, minCostM, call)

\* The left loop without the continue of line 334.
editLeftNoContinue(ns, l, right, minCostM, call) ==
    IF l = nil THEN <<>>
    ELSE editInner(ns, l, ns[right].FirstChild, minCostM, call)
         \o (IF ~HasLeft(minCostM, l)
             THEN IF ns[l].FirstChild = nil
                  THEN <<Delta(Delete, l, ns[l].Parent, call),
                         Delta(DeleteSubtree, l, ns[l].Parent, call)>>
                  ELSE <<Delta(DeleteSubtree, l, ns[l].Parent, call)>>
             ELSE <<>>)
         \o editLeft(ns, ns[l].NextSibling, right, minCostM, call)

\* The loop of lines 317-338 from left child l.
editLeft(ns, l, right, minCostM, call) ==
    IF l = nil THEN <<>>
    ELSE editInner(ns, l, ns[right].FirstChild, minCostM, call)
         \o (IF ~HasLeft(minCostM, l)
             THEN IF ns[l].FirstChild = nil
                  THEN <<Delta(Delete, l, ns[l].Parent, call)>>
                  ELSE <<Delta(DeleteSubtree, l, ns[l].Parent, call)>>
             ELSE <<>>)
         \o editLeft(ns, ns[l].NextSibling, right, minCostM, call)

\* The loop of lines 339-347 from right child r.
editRight(ns, r, minCostM, call) ==
    IF r = nil THEN <<>>
    ELSE (IF ~HasRight(minCostM, r)
          THEN IF ns[r].FirstChild = nil
               THEN <<Delta(Insert, r, ns[r].Parent, call)>>
               ELSE <<Delta(InsertSubtree, r, ns[r].Parent, call)>>
          ELSE <<>>)
         \o editRight(ns, ns[r].NextSibling, minCostM, call)

\* editScript with the loop over the right children first.
editScriptRightFirst(ns, left, right, minCostM) ==
    LET rootPair == nodePair(left, right)
    IN IF rootPair \notin minCostM
       THEN <<Delta(InsertSubtree, right, ns[left].Parent, rootPair),
              Delta(DeleteSubtree, left, ns[left].Parent, rootPair)>>
       ELSE editRight(ns, ns[right].FirstChild, minCostM, rootPair)
            \o editLeft(ns, ns[left].FirstChild, right, minCostM, rootPair)

\* editScript, lines 307-349.
editScript(ns, left, right, minCostM) ==
    LET rootPair == nodePair(left, right)
    IN IF rootPair \notin minCostM
       THEN <<Delta(DeleteSubtree, left, ns[left].Parent, rootPair),
              Delta(InsertSubtree, right, ns[left].Parent, rootPair)>>
       ELSE editLeft(ns, ns[left].FirstChild, right, minCostM, rootPair)
            \o editRight(ns, ns[right].FirstChild, minCostM, rootPair)

\* ------------------------------------------------------------------------
\* Trees.  doc, el, attr, dat, decl are the helpers of xdiff_test.go: a
\* term is a new node with the subtrees appended to it in order.
\* ------------------------------------------------------------------------
doc(name, children) == [node |-> NewDocument(name), ch |-> children]
el(name, children) == [node |-> NewElement(name), ch |-> children]
attr(name, value) == [node |-> NewAttribute(name, value), ch |-> <<>>]
dat(value) == [node |-> NewData(value), ch |-> <<>>]
decl(children) == [node |-> NewDeclaration, ch |-> children]

\* addChildren: the store after building term t behind the nodes of ns;
\* the root of t gets index Len(ns) + 1.
RECURSIVE BuildTree(_, _)
RECURSIVE addChildren(_, _, _, _)
addChildren(ns, n, children, i) ==
    IF n \in DOMAIN ns /\ i <= Len(children)
    THEN addChildren(AppendChild(BuildTree(ns, children[i]), n, Len(ns) + 1),
                     n, children, i + 1)
    ELSE ns

BuildTree(ns, t) == addChildren(Append(ns, t.node), Len(ns) + 1, t.ch, 1)

\* The children a root element of the scenario family is built from.
KidTemplates ==
    { el(<<"a">>, <<dat(<<"1">>)>>),
      el(<<"a">>, <<dat(<<"2">>)>>),
      dat(<<"1">>) }

KidSeqs == UNION {[1..k -> KidTemplates] : k \in 0..MaxKids}

FamilyTrees == {doc(<<>>, <<el(<<"r">>, kids)>>) : kids \in KidSeqs}

\* The trees of TestCompare, TestReducingMatchingSpace and validateBasicXML
\* (a declaration with an attribute, against an element of the same name),
\* and two pairs whose right tree permutes siblings of the left at two levels.
Elem3(i, v) ==
    el(<<"element">>, <<attr(<<"id">>, <<i>>), el(<<"subelement">>, <<dat(<<v>>)>>)>>)

TestTrees ==
    << <<doc(<<>>, <<>>), doc(<<>>, <<>>)>>,
      <<doc(<<>>, <<el(<<"root">>, <<>>)>>), doc(<<>>, <<el(<<"root">>, <<>>)>>)>>,
      <<doc(<<>>, <<>>), doc(<<>>, <<el(<<"root">>, <<>>)>>)>>,
      <<doc(<<>>, <<el(<<"root">>, <<>>)>>), doc(<<>>, <<>>)>>,
      <<doc(<<>>, <<el(<<"root">>, <<dat(<<"value">>)>>)>>),
        doc(<<>>, <<el(<<"root">>, <<dat(<<"edited">>)>>)>>)>>,
      <<doc(<<>>, <<el(<<"root">>, <<dat(<<"value">>)>>)>>),
        doc(<<>>, <<el(<<"replace">>, <<dat(<<"edited">>)>>)>>)>>,
      <<doc(<<>>, <<el(<<"outer">>, <<>>)>>),
        doc(<<>>, <<el(<<"outer">>, <<el(<<"inner">>, <<dat(<<"value">>)>>)>>)>>)>>,
      <<doc(<<>>, <<el(<<"root">>,
            <<Elem3("1", "value1"), Elem3("2", "value2"), Elem3("3", "value3")>>)>>),
        doc(<<>>, <<el(<<"root">>,
            <<el(<<"element">>, <<attr(<<"id">>, <<"1">>), attr(<<"name">>, <<"John">>),
                                   el(<<"subelement">>, <<dat(<<"value1">>)>>)>>),
              el(<<"element">>, <<el(<<"subelement">>, <<dat(<<"value2">>)>>)>>),
              Elem3("4", "value3")>>)>>)>>,
      <<doc(<<>>, <<el(<<"root">>,
            <<Elem3("1", "value1"), Elem3("2", "value2"), Elem3("3", "value3")>>)>>),
        doc(<<>>, <<el(<<"root">>,
            <<Elem3("1", "value1"), Elem3("2", "value3"), Elem3("3", "value3")>>)>>)>>,
      <<doc(<<>>, <<decl(<<attr(<<"version">>, <<"1">>)>>), el(<<"xml">>, <<>>)>>),
        doc(<<>>, <<el(<<"xml">>, <<attr(<<"version">>, <<"1">>)>>)>>)>>,
      <<doc(<<>>, <<el(<<"r">>, <<el(<<"a">>, <<dat(<<"1">>), dat(<<"2">>)>>),
                                  el(<<"a">>, <<dat(<<"1">>), dat(<<"4">>)>>)>>)>>),
        doc(<<>>, <<el(<<"r">>, <<el(<<"a">>, <<dat(<<"4">>), dat(<<"1">>)>>),
                                  el(<<"a">>, <<dat(<<"2">>), dat(<<"1">>)>>)>>)>>)>>,
      <<doc(<<>>, <<el(<<"r">>,
            <<el(<<"a">>, <<el(<<"p">>, <<>>), el(<<"p">>, <<>>), el(<<"q">>, <<>>)>>),
              el(<<"a">>, <<el(<<"p">>, <<>>), el(<<"s">>, <<>>), el(<<"p">>, <<>>)>>)>>)>>),
        doc(<<>>, <<el(<<"r">>,
            <<el(<<"a">>, <<el(<<"p">>, <<>>), el(<<"p">>, <<>>), el(<<"s">>, <<>>)>>),
              el(<<"a">>, <<el(<<"q">>, <<>>), el(<<"p">>, <<>>), el(<<"p">>, <<>>)>>)>>)>>)>> >>

\* ------------------------------------------------------------------------
\* State.
\* ------------------------------------------------------------------------
VARIABLES
    nodes,             \* the node store: both trees
    roots,             \* <<root of the left tree, root of the right tree>>
    pc,                \* position of the caller / of Compare
    left, right,       \* the arguments of Compare
    distTbl, minCostM, \* Compare's tables
    leftS, rightS,     \* Compare's stacks
    l, r,
    leftLastVisited, rightLastVisited,
    costBySig,         \* the pairs of distTbl not yet passed to Add
    curSig,            \* the signature group the last loop of Compare is in
    script, err,       \* what Compare returns
    prepared,          \* history: the node store Compare was called with
    matched,           \* history: minCostM when the walk of lines 153-180 ended
    pushFailed,        \* history: a Push of Compare's walk returned false
    matchLog,          \* history: the pairs match was called with, those it
                       \* was called with again, and the child pairs it read
                       \* from distTbl that had no entry
    prep,              \* Prepare's locals s, n, lastVisited; its argument
                       \* root and the number run of the call
    finalised,         \* history: the nodes the current call of Prepare has
                       \* set Signature and Hash of, in order
    before,            \* history: the node store when both trees were
                       \* prepared once
    out,               \* the bytes TextEncoder.Encode has written to its writer
    writeFailed        \* history: a Write of that writer returned an error

vars == <<nodes, roots, pc, left, right, distTbl, minCostM, leftS, rightS, l, r,
          leftLastVisited, rightLastVisited, costBySig, curSig, script, err,
          prepared, matched, pushFailed, matchLog, prep, finalised, before, out,
          writeFailed>>

prepareVars == <<prep, finalised, before>>

encodeVars == <<out, writeFailed>>

\* No call of Prepare yet.
NoPrep == [s |-> <<>>, n |-> nil, lastVisited |-> nil, root |-> nil, run |-> 0]

history == <<prepared, matched, pushFailed, matchLog>>

\* No call of match yet.
NoLog == [once |-> {}, again |-> {}, missing |-> {}]

compareVars == <<left, right, distTbl, minCostM, leftS, rightS, l, r,
                 leftLastVisited, rightLastVisited, costBySig, curSig, script,
                 history>>

NoDist == [p \in {} |-> 0]

\* The left tree and the right tree built in one store, and their roots.
BuildPair(a, b) ==
    LET ns == BuildTree(<<>>, a)
    IN [nodes |-> BuildTree(ns, b), roots |-> <<1, Len(ns) + 1>>]

TestStores == [i \in DOMAIN TestTrees |-> BuildPair(TestTrees[i][1], TestTrees[i][2])]

\* Two documents whose root elements have, at equal signatures, a leaf
\* against an element with two children, the reverse, two equal leaves and
\* two texts that differ.
BaseCaseTrees ==
    <<doc(<<>>, <<el(<<"r">>, <<el(<<"a">>, <<>>),
                                el(<<"b">>, <<el(<<"x">>, <<>>), el(<<"y">>, <<>>)>>),
                                el(<<"c">>, <<>>),
                                dat(<<"1">>)>>)>>),
      doc(<<>>, <<el(<<"r">>, <<el(<<"a">>, <<el(<<"x">>, <<>>), el(<<"y">>, <<>>)>>),
                                el(<<"b">>, <<>>),
                                el(<<"c">>, <<>>),
                                dat(<<"2">>)>>)>>)>>

\* Two documents in which reduceMatchingSpace removes a first child (p, below
\* the elements a that differ) and a child that is not the first (b).
SiblingTrees ==
    <<doc(<<>>, <<el(<<"r">>, <<el(<<"a">>, <<el(<<"p">>, <<>>), el(<<"q">>, <<>>),
                                              dat(<<"1">>)>>),
                                el(<<"b">>, <<>>),
                                el(<<"c">>, <<>>)>>)>>),
      doc(<<>>, <<el(<<"r">>, <<el(<<"a">>, <<el(<<"p">>, <<>>), el(<<"q">>, <<>>),
                                              dat(<<"2">>)>>),
                                el(<<"b">>, <<>>),
                                el(<<"c">>, <<>>)>>)>>)>>

Init ==
    /\ \E st \in {TestStores[i] : i \in DOMAIN TestStores}
                   \cup {BuildPair(a, b) : a \in FamilyTrees, b \in FamilyTrees}
                   \cup {BuildPair(BaseCaseTrees[1], BaseCaseTrees[2]),
                         BuildPair(SiblingTrees[1], SiblingTrees[2])} :
         nodes = st.nodes /\ roots = st.roots
    /\ pc = "built"
    /\ left = nil /\ right = nil
    /\ distTbl = NoDist /\ minCostM = {}
    /\ leftS = <<>> /\ rightS = <<>>
    /\ l = nil /\ r = nil
    /\ leftLastVisited = nil /\ rightLastVisited = nil
    /\ costBySig = {} /\ curSig = NoBytes
    /\ script = <<>> /\ err = "nil"
    /\ prepared = <<>> /\ matched = {} /\ pushFailed = FALSE
    /\ matchLog = NoLog
    /\ out = <<>> /\ writeFailed = FALSE
    /\ prep = NoPrep /\ finalised = <<>> /\ before = <<>>

\* The caller prepares the left tree, then the right tree
\* (xtree.Prepare(tt.args.left); xtree.Prepare(tt.args.right)).
PrepareTree ==
    /\ pc \in {"built", "preparedLeft"}
    /\ LET n == IF pc = "built" THEN roots[1] ELSE roots[2]
           res == Prepare(nodes, n)
       IN /\ nodes' = res.nodes
          /\ err' = res.err
          /\ pc' = IF res.err # "nil" THEN "failed"
                   ELSE IF pc = "built" THEN "preparedLeft" ELSE "prepared"
    /\ UNCHANGED <<roots, compareVars>>
    /\ UNCHANGED <<prepareVars, encodeVars>>

\* The node pairs Compare is called with: the two roots, one root with
\* itself, or the first children of the roots.
Entries ==
    {<<roots[1], roots[2]>>, <<roots[1], roots[1]>>}
      \cup (IF nodes[roots[1]].FirstChild # nil /\ nodes[roots[2]].FirstChild # nil
            THEN {<<nodes[roots[1]].FirstChild, nodes[roots[2]].FirstChild>>}
            ELSE {})

\* Compare, lines 140-152: the early return, or reduceMatchingSpace and the
\* set-up of the walk.
CompareEnter ==
    /\ pc = "prepared"
    /\ \E e \in Entries :
         /\ left' = e[1] /\ right' = e[2]
         /\ IF bytesEqual(nodes[e[1]].Hash, nodes[e[2]].Hash)
            THEN /\ script' = <<>> /\ err' = "nil" /\ pc' = "done"
                 /\ UNCHANGED <<nodes, minCostM, l, r>>
            ELSE LET ns == reduceMatchingSpace(nodes, e[1], e[2])
                 IN /\ nodes' = ns
                    /\ minCostM' = Add(ns, {}, nodePair(e[1], e[2]))
                    /\ l' = e[1] /\ r' = e[2]
                    /\ pc' = "outer"
                    /\ UNCHANGED <<script, err>>
    /\ pushFailed' = FALSE
    /\ matchLog' = NoLog
    /\ UNCHANGED <<roots, distTbl, leftS, rightS, leftLastVisited,
                   rightLastVisited, costBySig, curSig, matched>>
    /\ UNCHANGED <<prepareVars, encodeVars>>

\* The call of Compare, with the store as it was handed over kept in
\* prepared.
CompareStart == CompareEnter /\ prepared' = nodes

\* The locals of the walk of lines 153-180, and their assignment.
WalkState ==
    [leftS |-> leftS, rightS |-> rightS, l |-> l, r |-> r,
     leftLastVisited |-> leftLastVisited,
     rightLastVisited |-> rightLastVisited,
     distTbl |-> distTbl, minCostM |-> minCostM, pc |-> pc,
     pushFailed |-> pushFailed, matchLog |-> matchLog]

SetWalk(st) ==
    /\ leftS' = st.leftS /\ rightS' = st.rightS
    /\ l' = st.l /\ r' = st.r
    /\ leftLastVisited' = st.leftLastVisited
    /\ rightLastVisited' = st.rightLastVisited
    /\ distTbl' = st.distTbl /\ minCostM' = st.minCostM
    /\ pc' = st.pc
    /\ pushFailed' = st.pushFailed
    /\ matchLog' = st.matchLog

\* The outer loop has ended.
WalkOver(st) == st.pc = "outer" /\ ~(~IsEmpty(st.leftS) \/ st.l # nil)

\* One iteration of the outer loop of lines 153-180 up to the start of the
\* inner loop (line 162), or one iteration of the inner loop of lines
\* 163-176, or its exit and the Pop of line 177: the possible locals after
\* it.  The result of Push is not looked at.
CompareIteration(ns, rightRoot, st) ==
    IF st.pc = "outer"
    THEN IF WalkOver(st) THEN {st}
         ELSE IF st.l # nil
         THEN {[st EXCEPT !.leftS = Push(st.leftS, st.l),
                          !.l = ns[st.l].FirstChild,
                          !.pushFailed = st.pushFailed \/ ~PushOk(st.leftS)]}
         ELSE LET leftPeek == Peek(st.leftS)
              IN IF ns[leftPeek].NextSibling # nil
                    /\ st.leftLastVisited # ns[leftPeek].NextSibling
                 THEN {[st EXCEPT !.l = ns[leftPeek].NextSibling]}
                 ELSE {[st EXCEPT !.r = rightRoot, !.pc = "inner"]}
    ELSE IF ~(~IsEmpty(st.rightS) \/ st.r # nil)
    THEN {[st EXCEPT !.leftLastVisited = PopNode(st.leftS),
                     !.leftS = Pop(st.leftS),
                     !.pc = "outer"]}
    ELSE IF st.r # nil
    THEN {[st EXCEPT !.rightS = Push(st.rightS, st.r),
                     !.r = ns[st.r].FirstChild,
                     !.pushFailed = st.pushFailed \/ ~PushOk(st.rightS)]}
    ELSE LET rightPeek == Peek(st.rightS)
         IN IF ns[rightPeek].NextSibling # nil
               /\ st.rightLastVisited # ns[rightPeek].NextSibling
            THEN {[st EXCEPT !.r = ns[rightPeek].NextSibling]}
            ELSE {[st EXCEPT !.distTbl = res.distTbl,
                             !.minCostM = res.minCostM,
                             !.matchLog = Logged(st.matchLog, ns, Peek(st.leftS),
                                                 rightPeek, st.distTbl),
                             !.rightLastVisited = PopNode(st.rightS),
                             !.rightS = Pop(st.rightS)] :
                     res \in match(ns, Peek(st.leftS), rightPeek,
                                   st.distTbl, st.minCostM)}

OuterStep ==
    /\ pc = "outer"
    /\ ~WalkOver(WalkState)
    /\ \E st \in CompareIteration(nodes, right, WalkState) : SetWalk(st)
    /\ UNCHANGED <<nodes, roots, left, right, costBySig, curSig, script, err,
                   prepared, matched>>
    /\ UNCHANGED <<prepareVars, encodeVars>>

InnerStep ==
    /\ pc = "inner"
    /\ \E st \in CompareIteration(nodes, right, WalkState) : SetWalk(st)
    /\ UNCHANGED <<nodes, roots, left, right, costBySig, curSig, script, err,
                   prepared, matched>>
    /\ UNCHANGED <<prepareVars, encodeVars>>

\* k iterations from each of the locals sts, or fewer when the walk ends
\* before; split in halves like PrepareLoop.
RECURSIVE CompareLoop(_, _, _, _)
CompareLoop(ns, rightRoot, sts, k) ==
    IF \A st \in sts : WalkOver(st) THEN sts
    ELSE IF k <= 1
    THEN UNION {CompareIteration(ns, rightRoot, st) : st \in sts}
    ELSE CompareLoop(ns, rightRoot, CompareLoop(ns, rightRoot, sts, k \div 2),
                     k - (k \div 2))

\* k more iterations from each of the locals sts, stopping when the locals
\* `target` are met: the locals reached and whether target was met.
RECURSIVE Revisit(_, _, _, _, _)
Revisit(ns, rightRoot, sts, target, k) ==
    IF k <= 1
    THEN LET next == UNION {CompareIteration(ns, rightRoot, st) : st \in sts}
         IN [sts |-> next, found |-> target \in next]
    ELSE LET half == Revisit(ns, rightRoot, sts, target, k \div 2)
         IN IF half.found THEN half
            ELSE Revisit(ns, rightRoot, half.sts, target, k - (k \div 2))

\* The loops of lines 153-180 never end from some of the locals sts: a run
\* comes back to locals it has had, with the walk not over.  The runs are
\* followed for k iterations, then 2 * k, and so on; the locals after each
\* stretch are looked for in the stretch that follows.  The locals are
\* finitely many, so every run ends or comes back.
RECURSIVE Spins(_, _, _, _)
Spins(ns, rightRoot, sts, k) ==
    LET live == {st \in sts : ~WalkOver(st)}
    IN IF live = {} THEN FALSE
       ELSE IF \E t \in live : Revisit(ns, rightRoot, {t}, t, k).found THEN TRUE
       ELSE Spins(ns, rightRoot, CompareLoop(ns, rightRoot, live, k), 2 * k)

\* The whole walk of lines 153-180 in one step, when it ends.  An iteration of the outer
\* loop takes at most the 3 * Len(nodes) + 2 iterations of an inner loop, and
\* there are at most 3 * Len(nodes) of them.
CompareWalk ==
    /\ pc = "outer"
    /\ ~WalkOver(WalkState)
    /\ ~Spins(nodes, right, {WalkState}, 1)
    /\ \E st \in CompareLoop(nodes, right, {WalkState},
                             3 * Len(nodes) * (3 * Len(nodes) + 3)) :
         WalkOver(st) /\ SetWalk(st)
    /\ UNCHANGED <<nodes, roots, left, right, costBySig, curSig, script, err,
                   prepared, matched>>
    /\ UNCHANGED <<prepareVars, encodeVars>>

\* Exit of the outer loop and lines 181-188: the pairs of distTbl, grouped
\* by the signature of the left node.
GroupCosts ==
    /\ pc = "outer"
    /\ ~(~IsEmpty(leftS) \/ l # nil)
    /\ costBySig' = {costPair(p, distTbl[p]) : p \in DOMAIN distTbl}
    /\ curSig' = NoBytes
    /\ matched' = minCostM
    /\ pc' = "assign"
    /\ UNCHANGED <<nodes, roots, left, right, distTbl, minCostM, leftS, rightS,
                   l, r, leftLastVisited, rightLastVisited, script, err, prepared,
                   pushFailed, matchLog>>
    /\ UNCHANGED <<prepareVars, encodeVars>>

\* The pairs of costBySig with left signature sig.
Group(sig) == {c \in costBySig : nodes[c.Left].Signature = sig}

\* One minCostM.Add of lines 189-196.  The groups come in any order (range
\* over a map); within the group being walked the next pair is one of least
\* cost among those left.
AssignStep ==
    /\ pc = "assign"
    /\ \E c \in costBySig :
         /\ curSig = NoBytes \/ nodes[c.Left].Signature = curSig
         /\ c \in SortFirst(Group(nodes[c.Left].Signature))
         /\ minCostM' = Add(nodes, minCostM, nodePair(c.Left, c.Right))
         /\ costBySig' = costBySig \ {c}
         /\ curSig' = IF Group(nodes[c.Left].Signature) = {c} THEN NoBytes
                      ELSE nodes[c.Left].Signature
    /\ UNCHANGED <<nodes, roots, pc, left, right, distTbl, leftS, rightS, l, r,
                   leftLastVisited, rightLastVisited, script, err, history>>
    /\ UNCHANGED <<prepareVars, encodeVars>>

\* Line 198: return editScript(left, right, minCostM), nil.
EditScriptStep ==
    /\ pc = "assign"
    /\ costBySig = {}
    /\ script' = editScript(nodes, left, right, minCostM)
    /\ err' = "nil"
    /\ pc' = "done"
    /\ UNCHANGED <<nodes, roots, left, right, distTbl, minCostM, leftS, rightS,
                   l, r, leftLastVisited, rightLastVisited, costBySig, curSig,
                   history>>
    /\ UNCHANGED <<prepareVars, encodeVars>>

Next ==
    \/ PrepareTree
    \/ CompareStart
    \/ OuterStep
    \/ InnerStep
    \/ GroupCosts
    \/ AssignStep
    \/ EditScriptStep

Spec == Init /\ [][Next]_vars

\* ------------------------------------------------------------------------
\* Tree editing: any sequence of AppendChild and Remove on MaxNodes nodes.
\* ------------------------------------------------------------------------
\* MaxNodes new nodes, elements or data nodes, none linked to another.
TreeInit ==
    /\ nodes \in [1..MaxNodes -> {NewElement(<<"a">>), NewData(<<"1">>)}]
    /\ roots = <<nil, nil>>
    /\ pc = "tree"
    /\ left = nil /\ right = nil
    /\ distTbl = NoDist /\ minCostM = {}
    /\ leftS = <<>> /\ rightS = <<>>
    /\ l = nil /\ r = nil
    /\ leftLastVisited = nil /\ rightLastVisited = nil
    /\ costBySig = {} /\ curSig = NoBytes
    /\ script = <<>> /\ err = "nil"
    /\ prepared = <<>> /\ matched = {} /\ pushFailed = FALSE
    /\ matchLog = NoLog
    /\ out = <<>> /\ writeFailed = FALSE
    /\ prep = NoPrep /\ finalised = <<>> /\ before = <<>>

\* The ancestors of n, by the Parent links (at most fuel of them).
RECURSIVE Ancestors(_, _, _)
Ancestors(ns, n, fuel) ==
    IF ns[n].Parent = nil \/ fuel = 0 THEN {}
    ELSE {ns[n].Parent} \cup Ancestors(ns, ns[n].Parent, fuel - 1)

\* AppendChild dereferences n.LastChild() (line 918) and Remove dereferences
\* n.PrevSiblingCyclic (line 903): on a nil pointer the program panics.
AppendChildPanics(ns, n) == ns[n].FirstChild # nil /\ LastChild(ns, n) = nil
RemovePanics(ns, n) == ns[n].PrevSiblingCyclic = nil

\* n.AppendChild(child) for a child that has no parent and is not n or an
\* ancestor of n.
AppendChildStep ==
    /\ pc = "tree"
    /\ \E n, child \in DOMAIN nodes :
         /\ nodes[child].Parent = nil
         /\ child \notin {n} \cup Ancestors(nodes, n, Len(nodes))
         /\ IF AppendChildPanics(nodes, n)
            THEN pc' = "panic" /\ UNCHANGED nodes
            ELSE nodes' = AppendChild(nodes, n, child) /\ UNCHANGED pc
    /\ UNCHANGED <<roots, err, compareVars>>
    /\ UNCHANGED <<prepareVars, encodeVars>>

\* n.Remove() for a node that is a child.
RemoveStep ==
    /\ pc = "tree"
    /\ \E n \in DOMAIN nodes :
         /\ nodes[n].Parent # nil
         /\ IF RemovePanics(nodes, n)
            THEN pc' = "panic" /\ UNCHANGED nodes
            ELSE nodes' = Remove(nodes, n) /\ UNCHANGED pc
    /\ UNCHANGED <<roots, err, compareVars>>
    /\ UNCHANGED <<prepareVars, encodeVars>>

TreeNext == AppendChildStep \/ RemoveStep

TreeSpec == TreeInit /\ [][TreeNext]_vars

\* ------------------------------------------------------------------------
\* xtree.Prepare step by step: one action per iteration of its loop.  The
\* caller prepares the left tree, the right tree, and then both once more.
\* ------------------------------------------------------------------------
\* The calls of Prepare the caller makes.
PrepareRuns == 4

\* The argument of the k-th call.
RunRoot(k) == IF k % 2 = 1 THEN roots[1] ELSE roots[2]

\* Prepare is called: lines 928-930.
PrepareCall ==
    /\ pc = "built"
    /\ prep.run < PrepareRuns
    /\ prep' = [s |-> <<>>, n |-> RunRoot(prep.run + 1), lastVisited |-> nil,
                root |-> RunRoot(prep.run + 1), run |-> prep.run + 1]
    /\ finalised' = <<>>
    /\ before' = IF prep.run = 2 THEN nodes ELSE before
    /\ pc' = "preparing"
    /\ UNCHANGED <<nodes, roots, err, compareVars, encodeVars>>

\* Lines 932-936: n is pushed, or Prepare returns the error.
PreparePush ==
    /\ pc = "preparing"
    /\ prep.n # nil
    /\ IF ~PushOk(prep.s)
       THEN /\ err' = "depth"
            /\ pc' = "failed"
            /\ UNCHANGED prep
       ELSE /\ prep' = [prep EXCEPT !.s = Push(prep.s, prep.n),
                                    !.n = nodes[prep.n].FirstChild]
            /\ UNCHANGED <<err, pc>>
    /\ UNCHANGED <<nodes, roots, compareVars, encodeVars, finalised, before>>

\* Lines 938-940: on to the next sibling of the node on top.
PrepareSibling ==
    /\ pc = "preparing"
    /\ prep.n = nil /\ ~IsEmpty(prep.s)
    /\ LET peekNode == Peek(prep.s)
       IN /\ nodes[peekNode].NextSibling # nil
          /\ prep.lastVisited # nodes[peekNode].NextSibling
          /\ prep' = [prep EXCEPT !.n = nodes[peekNode].NextSibling]
    /\ UNCHANGED <<nodes, roots, pc, err, compareVars, encodeVars, finalised, before>>

\* Lines 941-946: the node on top gets its signature and hash and is popped.
PrepareFinalise ==
    /\ pc = "preparing"
    /\ prep.n = nil /\ ~IsEmpty(prep.s)
    /\ LET peekNode == Peek(prep.s)
       IN /\ ~(/\ nodes[peekNode].NextSibling # nil
                /\ prep.lastVisited # nodes[peekNode].NextSibling)
          /\ nodes' = CalculateHash(CalculateSignature(nodes, peekNode), peekNode)
          /\ prep' = [prep EXCEPT !.lastVisited = PopNode(prep.s),
                                  !.s = Pop(prep.s)]
          /\ finalised' = Append(finalised, peekNode)
    /\ UNCHANGED <<roots, pc, err, compareVars, encodeVars, before>>

\* Line 949: the loop is over, Prepare returns nil.
PrepareReturn ==
    /\ pc = "preparing"
    /\ ~(~IsEmpty(prep.s) \/ prep.n # nil)
    /\ err' = "nil"
    /\ pc' = "built"
    /\ UNCHANGED <<nodes, roots, compareVars, encodeVars, prepareVars>>

PrepareNext ==
    \/ PrepareCall
    \/ PreparePush
    \/ PrepareSibling
    \/ PrepareFinalise
    \/ PrepareReturn

PrepareSpec == Init /\ [][PrepareNext]_vars

\* ------------------------------------------------------------------------
\* Prepare on a tree as wide as the stack.
\* ------------------------------------------------------------------------
\* A document with maxStackSize element children (what AppendChild builds),
\* and beside it an empty document.
WideStore ==
    [nodes |->
       [i \in 1..(maxStackSize + 2) |->
          IF i = 1 THEN [NewDocument(NoBytes) EXCEPT !.FirstChild = i + 1]
          ELSE IF i = maxStackSize + 2 THEN NewDocument(NoBytes)
          ELSE [NewElement(<<"a">>) EXCEPT
                  !.Parent = 1,
                  !.NextSibling = IF i = maxStackSize + 1 THEN nil ELSE i + 1,
                  !.PrevSiblingCyclic = IF i = 2 THEN maxStackSize + 1 ELSE i - 1]],
     roots |-> <<1, maxStackSize + 2>>]

\* The locals of Compare and the history before any call.
Idle ==
    /\ pc = "built"
    /\ left = nil /\ right = nil
    /\ distTbl = NoDist /\ minCostM = {}
    /\ leftS = <<>> /\ rightS = <<>>
    /\ l = nil /\ r = nil
    /\ leftLastVisited = nil /\ rightLastVisited = nil
    /\ costBySig = {} /\ curSig = NoBytes
    /\ script = <<>> /\ err = "nil"
    /\ prepared = <<>> /\ matched = {} /\ pushFailed = FALSE
    /\ matchLog = NoLog
    /\ out = <<>> /\ writeFailed = FALSE
    /\ prep = NoPrep /\ finalised = <<>> /\ before = <<>>

StackInit ==
    /\ \E st \in {WideStore} \cup {TestStores[i] : i \in DOMAIN TestStores}
                   \cup {BuildPair(a, b) : a \in FamilyTrees, b \in FamilyTrees} :
         nodes = st.nodes /\ roots = st.roots
    /\ Idle

StackSpec == StackInit /\ [][PrepareTree]_vars

\* ------------------------------------------------------------------------
\* Compare on a tree deeper than the stack.
\* ------------------------------------------------------------------------
\* An empty document, and beside it a document with maxStackSize elements
\* nested one in the other.
DeepStore ==
    [nodes |->
       [i \in 1..(maxStackSize + 2) |->
          IF i = 1 THEN NewDocument(NoBytes)
          ELSE IF i = 2 THEN [NewDocument(NoBytes) EXCEPT !.FirstChild = i + 1]
          ELSE [NewElement(<<"a">>) EXCEPT
                  !.Parent = i - 1,
                  !.FirstChild = IF i = maxStackSize + 2 THEN nil ELSE i + 1,
                  !.PrevSiblingCyclic = i]],
     roots |-> <<1, 2>>]

CompareStackInit ==
    /\ \E st \in {DeepStore, WideStore}
                   \cup {TestStores[i] : i \in DOMAIN TestStores} :
         nodes = st.nodes /\ roots = st.roots
    /\ Idle

\* xtree.Prepare(tt.args.left); xtree.Prepare(tt.args.right): the caller
\* does not look at the errors of Prepare.
PrepareUnchecked ==
    /\ pc = "built"
    /\ LET resLeft == Prepare(nodes, roots[1])
           resRight == Prepare(resLeft.nodes, roots[2])
       IN /\ nodes' = resRight.nodes
          /\ err' = resRight.err
    /\ pc' = "prepared"
    /\ UNCHANGED <<roots, compareVars>>
    /\ UNCHANGED <<prepareVars, encodeVars>>

CompareStackNext ==
    \/ PrepareUnchecked
    \/ (CompareEnter /\ UNCHANGED prepared)
    \/ CompareWalk
    \/ GroupCosts
    \/ AssignStep
    \/ EditScriptStep

CompareStackSpec == CompareStackInit /\ [][CompareStackNext]_vars

\* ------------------------------------------------------------------------
\* Compare on trees that reduceMatchingSpace detaches nodes of.
\* ------------------------------------------------------------------------
leaf(name) == el(<<name>>, <<>>)

\* Pairs of documents in which an element and the element at its position
\* on the right differ and begin with two pairs of equal children.
ReductionTrees ==
    << <<doc(<<>>, <<el(<<"r">>,
            <<leaf("q"), el(<<"p">>, <<leaf("c"), leaf("e"), leaf("g")>>)>>)>>),
         doc(<<>>, <<el(<<"r">>,
            <<el(<<"p">>, <<leaf("c")>>),
              el(<<"p">>, <<leaf("c"), leaf("e"), leaf("h")>>)>>)>>)>>,
       <<doc(<<>>, <<el(<<"r">>,
            <<el(<<"p">>, <<leaf("c"), leaf("e"), leaf("g")>>)>>)>>),
         doc(<<>>, <<el(<<"r">>,
            <<el(<<"p">>, <<leaf("c"), leaf("e"), leaf("h")>>),
              el(<<"p">>, <<leaf("c")>>)>>)>>)>>,
       <<doc(<<>>, <<el(<<"r">>, <<leaf("c"), leaf("e"), dat(<<"1">>)>>)>>),
         doc(<<>>, <<el(<<"r">>, <<leaf("c"), leaf("e"), dat(<<"2">>)>>)>>)>> >>

ReductionInit ==
    /\ \E i \in DOMAIN ReductionTrees :
         LET st == BuildPair(ReductionTrees[i][1], ReductionTrees[i][2])
         IN nodes = st.nodes /\ roots = st.roots
    /\ Idle

ReductionSpec == ReductionInit /\ [][Next]_vars

\* ------------------------------------------------------------------------
\* xdiff.TextEncoder.Encode and the %s verbs it prints with.  The output is
\* a []byte; the atoms of the format strings are written as they stand in
\* the code and "\n" is the line feed.
\* ------------------------------------------------------------------------
MaxDeltas == 2

\* Operation.String (the stringer of go:generate, xdiff.go line 4).
OperationString(o) == <<o>>

\* strings.Replace(value, "\n", "\\n", -1)
RECURSIVE ReplaceLineFeeds(_)
ReplaceLineFeeds(value) ==
    IF value = <<>> THEN <<>>
    ELSE (IF Head(value) = "\n" THEN <<"\\", "n">> ELSE <<Head(value)>>)
         \o ReplaceLineFeeds(Tail(value))

\* The base 16 digits of k, `width` of them.
RECURSIVE HexDigits(_, _)
HexDigits(k, width) ==
    IF width = 0 THEN <<>>
    ELSE Append(HexDigits(k \div 16, width - 1),
                <<"0", "1", "2", "3", "4", "5", "6", "7",
                  "8", "9", "a", "b", "c", "d", "e", "f">>[(k % 16) + 1])

\* hex.EncodeToString(n.Hash) cut to six digits.  The digest is opaque in
\* the model: the digits number the distinct digests of the store, so that
\* equal digests print alike and different ones differently.
HashPrefix(ns, n) ==
    IF ns[n].Hash = NoHash THEN <<>>
    ELSE HexDigits(CHOOSE m \in DOMAIN ns :
                       /\ ns[m].Hash = ns[n].Hash
                       /\ \A k \in DOMAIN ns : ns[k].Hash = ns[n].Hash => m <= k,
                   6)

\* Node.String: "(%s n:%s v:%s s:%s h:%s)"
String(ns, n) ==
    <<"(", ns[n].Type, " n:">> \o ns[n].Name
        \o <<" v:">> \o ReplaceLineFeeds(ns[n].Value)
        \o <<" s:">> \o ns[n].Signature \o <<" h:">> \o HashPrefix(ns, n)
        \o <<")">>

\* The body of the loop of Encode without its continue: an Update falls
\* through to the second Fprintf.
EncodeDeltaNoContinue(ns, d) ==
    (IF d.Operation = Update
     THEN OperationString(d.Operation) \o <<"('">> \o String(ns, d.Subject)
            \o <<"'->'">> \o String(ns, d.Object) \o <<"')", "\n">>
     ELSE <<>>)
    \o OperationString(d.Operation) \o <<"('">> \o String(ns, d.Subject)
    \o <<"')", "\n">>

\* The body of the loop of Encode: what it writes for one delta.
EncodeDelta(ns, d) ==
    IF d.Operation = Update
    THEN OperationString(d.Operation) \o <<"('">> \o String(ns, d.Subject)
           \o <<"'->'">> \o String(ns, d.Object) \o <<"')", "\n">>
    ELSE OperationString(d.Operation) \o <<"('">> \o String(ns, d.Subject)
           \o <<"')", "\n">>

\* The calls of Fprint and Fprintf Encode makes, each one Write of w.
EncodeWrites(ns, deltas) ==
    IF Len(deltas) = 0 THEN << <<"No difference.", "\n">> >>
    ELSE [i \in DOMAIN deltas |-> EncodeDelta(ns, deltas[i])]

\* Encode on a writer that takes `good` calls of Write and returns an
\* error from every later one: the bytes w has got and the error Encode
\* returns.  What Fprint and Fprintf return is dropped, and line 25 is the
\* only return.
Encode(ns, deltas, good) ==
    LET writes == EncodeWrites(ns, deltas)
        taken == SubSeq(writes, 1, IF good < Len(writes) THEN good ELSE Len(writes))
    IN [out |-> Join(taken, <<>>),
        failed |-> good < Len(writes),
        err |-> "nil"]

\* Two documents with an attribute and a text of two lines, a text of one.
EncodeTrees ==
    <<doc(<<>>, <<el(<<"r">>, <<attr(<<"id">>, <<"1">>),
                                dat(<<"a", "\n", "b">>)>>)>>),
      doc(<<>>, <<el(<<"r">>, <<attr(<<"id">>, <<"2">>), dat(<<"c">>)>>)>>)>>

EncodeInit ==
    /\ LET st == BuildPair(EncodeTrees[1], EncodeTrees[2])
       IN nodes = st.nodes /\ roots = st.roots
    /\ Idle

\* The delta lists Encode is called with: up to MaxDeltas deltas of any
\* operation, with a node of the left tree as subject and a leaf of the
\* right tree as object.
Operations == {Insert, Update, Delete, InsertSubtree, DeleteSubtree}

DeltaLists ==
    LET ds == {Delta(op, subject, object, <<nil, nil>>) :
                 op \in Operations,
                 subject \in (roots[1] + 1)..(roots[2] - 1),
                 object \in {n \in (roots[2] + 1)..Len(nodes) :
                               nodes[n].FirstChild = nil}}
    IN UNION {[1..k -> ds] : k \in 0..MaxDeltas}

\* A caller encodes a delta list, before or after the trees are prepared,
\* on a writer that may fail.
EncodeStep ==
    /\ pc \in {"built", "prepared"}
    /\ \E deltas \in DeltaLists, good \in 0..(MaxDeltas + 1) :
         LET res == Encode(nodes, deltas, good)
         IN /\ script' = deltas
            /\ out' = res.out
            /\ writeFailed' = res.failed
            /\ err' = res.err
    /\ pc' = "encoded"
    /\ UNCHANGED <<nodes, roots, left, right, distTbl, minCostM, leftS,
                   rightS, l, r, leftLastVisited, rightLastVisited, costBySig,
                   curSig, history>>
    /\ UNCHANGED prepareVars

EncodeNext == PrepareTree \/ EncodeStep

EncodeSpec == EncodeInit /\ [][EncodeNext]_vars

\* ------------------------------------------------------------------------
\* Properties.
\* ------------------------------------------------------------------------
Returned == pc = "done"
\* Compare ran past the early return of line 142.
Walked == pc = "done" /\ prepared[left].Hash # prepared[right].Hash

Ops(deltas) == [i \in DOMAIN deltas |-> deltas[i].Operation]
Subjects(deltas) == [i \in DOMAIN deltas |-> deltas[i].Subject]

\* All bijections of 1..n.
Perms(n) == {p \in [1..n -> 1..n] : \A i, j \in 1..n : i # j => p[i] # p[j]}

\* Subtree b of the store is subtree a with siblings permuted at any level.
RECURSIVE PermEq(_, _, _)
PermEq(ns, a, b) ==
    /\ ns[a].Type = ns[b].Type
    /\ ns[a].Name = ns[b].Name
    /\ ns[a].Value = ns[b].Value
    /\ Len(Children(ns, a)) = Len(Children(ns, b))
    /\ \E p \in Perms(Len(Children(ns, a))) :
         \A i \in 1..Len(Children(ns, a)) :
            PermEq(ns, Children(ns, a)[i], Children(ns, b)[p[i]])

\* C1: when the hashes of the two nodes Compare is called with are equal
\* (a tree with itself, or two trees with equal root hash), Compare returns
\* no delta and a nil error.
C1_EmptyDiffLaw ==
    (Returned /\ prepared[left].Hash = prepared[right].Hash)
        => (script = <<>> /\ err = "nil")

C1_Witness ==
    /\ Returned /\ left # right
    /\ prepared[left].Hash = prepared[right].Hash
    /\ prepared[left].FirstChild # nil
    /\ script = <<>>

\* C2: when the right tree is the left tree with siblings permuted (at any
\* level) and the root hashes differ, Compare returns no delta.
C2_UnorderedEquivalence ==
    (Walked /\ PermEq(prepared, left, right)) => script = <<>>

C2_Witness ==
    /\ Walked /\ PermEq(prepared, left, right)
    /\ \E c \in SeqToSet(Children(prepared, left)) :
          prepared[c].FirstChild # nil
              /\ prepared[prepared[c].FirstChild].NextSibling # nil
    /\ script = <<>>

\* Type, Name and Value of every node of a store (links left out).
Labels(ns) == [i \in DOMAIN ns |-> <<ns[i].Type, ns[i].Name, ns[i].Value>>]

\* Compare was called on the roots of the k-th pair of TestTrees.
InTest(k) ==
    /\ pc \notin {"built", "preparedLeft", "prepared", "failed"}
    /\ Labels(prepared) = Labels(TestStores[k].nodes)
    /\ left = roots[1] /\ right = roots[2]

IsAttr(n, name, value) ==
    /\ prepared[n].Type = Attribute
    /\ prepared[n].Name = <<name>>
    /\ prepared[n].Value = <<value>>

WithOp(deltas, op) == {i \in DOMAIN deltas : deltas[i].Operation = op}

\* C3: on the "Matching parents by children" trees Compare returns exactly
\* three deltas: Insert of the name attribute, Delete of the id=2 attribute
\* and Update of the id=3 attribute to the id=4 attribute.
C3_MatchingParentsByChildren ==
    (Returned /\ InTest(8)) =>
        /\ Len(script) = 3
        /\ \E i \in WithOp(script, Insert) : IsAttr(script[i].Subject, "name", "John")
        /\ \E i \in WithOp(script, Delete) : IsAttr(script[i].Subject, "id", "2")
        /\ \E i \in WithOp(script, Update) :
              /\ IsAttr(script[i].Subject, "id", "3")
              /\ IsAttr(script[i].Object, "id", "4")

\* The outcome the claim describes is one of the outcomes.
C3_Described ==
    /\ Returned /\ InTest(8)
    /\ Len(script) = 3
    /\ \E i \in WithOp(script, Delete) : IsAttr(script[i].Subject, "id", "2")
    /\ \E i \in WithOp(script, Update) : IsAttr(script[i].Subject, "id", "3")

\* One fixed run of the loop of lines 189-196 from matching mcm over the
\* pairs costs: the groups in one order, equal costs in one order.
RECURSIVE FixedAssign(_, _, _, _)
FixedAssign(ns, mcm, costs, cur) ==
    IF costs = {} THEN mcm
    ELSE LET group(c) == {d \in costs : ns[d.Left].Signature = ns[c.Left].Signature}
             c == CHOOSE c \in costs :
                    /\ cur = NoBytes \/ ns[c.Left].Signature = cur
                    /\ c \in SortFirst(group(c))
         IN FixedAssign(ns, Add(ns, mcm, nodePair(c.Left, c.Right)), costs \ {c},
                        IF group(c) = {c} THEN NoBytes ELSE ns[c.Left].Signature)

\* C4: Compare is a function of its two trees: every run on the same trees,
\* with the same distances, returns the delta sequence of the fixed run.
C4_PureFunction ==
    Walked =>
        script = editScript(nodes, left, right,
                    FixedAssign(nodes, matched,
                        {costPair(p, distTbl[p]) : p \in DOMAIN distTbl}, NoBytes))

\* C5: in the matching handed to editScript, with a pair (l, r) whose nodes
\* both have a parent, the pair of the parents is in the matching too; as
\* this holds of every pair, it holds at every ancestor level up to the
\* roots.
C5_MatchingTransitivity ==
    Walked =>
        \A p \in minCostM :
            (nodes[p[1]].Parent # nil /\ nodes[p[2]].Parent # nil) =>
                nodePair(nodes[p[1]].Parent, nodes[p[2]].Parent) \in minCostM

\* A pair three levels below the roots is matched, with all its ancestors.
C5_Witness ==
    /\ Walked
    /\ \E p \in minCostM :
         LET lp == nodes[p[1]].Parent
             rp == nodes[p[2]].Parent
         IN /\ lp # nil /\ rp # nil
            /\ nodes[lp].Parent # nil /\ nodes[rp].Parent # nil
            /\ nodes[nodes[lp].Parent].Parent = left
            /\ nodes[nodes[rp].Parent].Parent = right
            /\ {nodePair(lp, rp), nodePair(nodes[lp].Parent, nodes[rp].Parent),
                nodePair(left, right)} \subseteq minCostM

\* C6: every pair of the matching handed to editScript has equal
\* signatures (here for Compare called on two nodes of equal signature).
C6_MatchedSignaturesEqual ==
    (Walked /\ nodes[left].Signature = nodes[right].Signature) =>
        \A p \in minCostM : nodes[p[1]].Signature = nodes[p[2]].Signature

\* The pairs editScript is invoked on and finds in the matching.
RECURSIVE editCalls(_, _, _, _)
editCalls(ns, a, b, mcm) ==
    IF nodePair(a, b) \notin mcm THEN {}
    ELSE {nodePair(a, b)} \cup
         UNION {editCalls(ns, q[1], q[2], mcm) :
                  q \in {q \in SeqToSet(Children(ns, a)) \X SeqToSet(Children(ns, b)) :
                            /\ q \in mcm
                            /\ ~(ns[q[1]].FirstChild = nil /\ ns[q[2]].FirstChild = nil)}}

IsLeaf(n) == nodes[n].FirstChild = nil

\* The positions of script holding a delta appended by invocation call
\* with subject n.
Emitted(call, n) ==
    {i \in DOMAIN script : script[i].call = call /\ script[i].Subject = n}

\* For a matched pair (lc, rc) of leaf children of a pair editScript
\* processes, the script holds exactly one delta, Update(lc, rc), if the
\* hashes differ and none if they are equal.
UpdatePerLeafPair ==
    Walked =>
        \A call \in editCalls(nodes, left, right, minCostM) :
          \A lc \in SeqToSet(Children(nodes, call[1])),
             rc \in SeqToSet(Children(nodes, call[2])) :
            (IsLeaf(lc) /\ IsLeaf(rc) /\ nodePair(lc, rc) \in minCostM) =>
                LET at == {i \in Emitted(call, lc) : script[i].Object = rc}
                IN IF nodes[lc].Hash # nodes[rc].Hash
                   THEN /\ Cardinality(at) = 1
                        /\ \A i \in at : script[i].Operation = Update
                   ELSE at = {}

\* The number of leaves at which subtree b differs from subtree a in Value
\* only, when the two are otherwise equal node by node and in order;
\* -1 when they are not.
RECURSIVE LeafDiffs(_, _, _)
RECURSIVE LeafDiffsFrom(_, _, _)
LeafDiffsFrom(ns, a, b) ==
    IF a = nil /\ b = nil THEN 0
    ELSE IF a = nil \/ b = nil THEN -1
    ELSE LET here == LeafDiffs(ns, a, b)
             rest == LeafDiffsFrom(ns, ns[a].NextSibling, ns[b].NextSibling)
         IN IF here < 0 \/ rest < 0 THEN -1 ELSE here + rest

LeafDiffs(ns, a, b) ==
    IF ns[a].Type # ns[b].Type \/ ns[a].Name # ns[b].Name THEN -1
    ELSE IF ns[a].FirstChild = nil /\ ns[b].FirstChild = nil
    THEN IF ns[a].Value = ns[b].Value THEN 0 ELSE 1
    ELSE IF ns[a].Value # ns[b].Value THEN -1
    ELSE LeafDiffsFrom(ns, ns[a].FirstChild, ns[b].FirstChild)

\* Two trees that differ in the value of one leaf only yield exactly one
\* delta, an Update.
OneLeafOneUpdate ==
    (Walked /\ LeafDiffs(prepared, left, right) = 1) => Ops(script) = <<Update>>

\* C7: Update rule. While editScript processes a matched pair, a matched
\* pair of leaf children yields Update(lc, rc) if the hashes differ and
\* nothing if they are equal; two trees differing only in one leaf value
\* yield exactly one Update.
C7_UpdateRule == UpdatePerLeafPair /\ OneLeafOneUpdate

\* editScript meets, below the roots, a matched pair of leaves of different
\* hashes and a matched pair of leaves of equal hashes.
C7_Witness ==
    /\ Walked
    /\ \E call \in editCalls(nodes, left, right, minCostM) \ {nodePair(left, right)} :
         \E lc \in SeqToSet(Children(nodes, call[1])),
            rc \in SeqToSet(Children(nodes, call[2])) :
            /\ IsLeaf(lc) /\ IsLeaf(rc) /\ nodePair(lc, rc) \in minCostM
            /\ nodes[lc].Hash # nodes[rc].Hash
            /\ \E i \in Emitted(call, lc) : script[i].Operation = Update
    /\ \E call \in editCalls(nodes, left, right, minCostM) :
         \E lc \in SeqToSet(Children(nodes, call[1])),
            rc \in SeqToSet(Children(nodes, call[2])) :
            /\ IsLeaf(lc) /\ IsLeaf(rc) /\ nodePair(lc, rc) \in minCostM
            /\ nodes[lc].Hash = nodes[rc].Hash
            /\ Emitted(call, lc) = {}
    /\ LeafDiffs(prepared, left, right) = 1
    /\ Ops(script) = <<Update>>

DeleteSide == {Delete, DeleteSubtree}
InsertSide == {Insert, InsertSubtree}

\* The one delta invocation call appended for subject n is op(n, parent(n)).
OneDelta(call, n, op) ==
    /\ Cardinality(Emitted(call, n)) = 1
    /\ \A i \in Emitted(call, n) :
          /\ script[i].Operation = op
          /\ script[i].Object = nodes[n].Parent

\* C8: while editScript processes a matched pair (l, r), a child of l on the
\* left of no pair yields exactly one delta, Delete if it is a leaf and
\* DeleteSubtree otherwise, and a child of r on the right of no pair yields
\* exactly one delta, Insert if it is a leaf and InsertSubtree otherwise;
\* the object is the subject's parent.
C8_UnmatchedChildren ==
    Walked =>
        \A call \in editCalls(nodes, left, right, minCostM) :
            /\ \A lc \in SeqToSet(Children(nodes, call[1])) :
                  ~HasLeft(minCostM, lc) =>
                      OneDelta(call, lc, IF IsLeaf(lc) THEN Delete ELSE DeleteSubtree)
            /\ \A rc \in SeqToSet(Children(nodes, call[2])) :
                  ~HasRight(minCostM, rc) =>
                      OneDelta(call, rc, IF IsLeaf(rc) THEN Insert ELSE InsertSubtree)

\* Below the roots editScript meets an unmatched leaf on the left, and in
\* the same run an unmatched inner node on the right.
C8_Witness ==
    /\ Walked
    /\ \E call \in editCalls(nodes, left, right, minCostM) \ {nodePair(left, right)} :
          \E lc \in SeqToSet(Children(nodes, call[1])) :
              IsLeaf(lc) /\ ~HasLeft(minCostM, lc) /\ OneDelta(call, lc, Delete)
    /\ \E call \in editCalls(nodes, left, right, minCostM) :
          \E rc \in SeqToSet(Children(nodes, call[2])) :
              ~IsLeaf(rc) /\ ~HasRight(minCostM, rc) /\ OneDelta(call, rc, InsertSubtree)

\* Among the deltas one invocation of editScript appends itself, no
\* Insert/InsertSubtree precedes a Delete/DeleteSubtree.
DeletesBeforeInserts ==
    \A i, j \in DOMAIN script :
        (i < j /\ script[i].call = script[j].call) =>
            ~(script[i].Operation \in InsertSide /\ script[j].Operation \in DeleteSide)

\* C9: emission order. At one level every Delete/DeleteSubtree precedes
\* every Insert/InsertSubtree, so replacing <root>value</root> by
\* <replace>edited</replace> yields exactly [DeleteSubtree, InsertSubtree].
C9_EmissionOrder ==
    /\ Returned => DeletesBeforeInserts
    /\ (Returned /\ InTest(6)) =>
          /\ Ops(script) = <<DeleteSubtree, InsertSubtree>>
          /\ Subjects(script) = <<nodes[left].FirstChild, nodes[right].FirstChild>>

C9_Witness ==
    /\ Returned /\ InTest(6)
    /\ Ops(script) = <<DeleteSubtree, InsertSubtree>>
    /\ script[1].call = script[2].call

\* One level holds two deletes and two inserts.
C9_LevelWitness ==
    /\ Walked
    /\ \E call \in editCalls(nodes, left, right, minCostM) :
          /\ Cardinality({i \in DOMAIN script :
                 script[i].call = call /\ script[i].Operation \in DeleteSide}) >= 2
          /\ Cardinality({i \in DOMAIN script :
                 script[i].call = call /\ script[i].Operation \in InsertSide}) >= 2

\* C10: Compare on a left and a right node of different signatures returns
\* exactly [DeleteSubtree(left), InsertSubtree(right)]: the pair (left,
\* right) is not in the matching.
C10_DifferentSignatureRoots ==
    (Returned /\ prepared[left].Signature # prepared[right].Signature) =>
        /\ Ops(script) = <<DeleteSubtree, InsertSubtree>>
        /\ Subjects(script) = <<left, right>>
        /\ nodePair(left, right) \notin minCostM

\* The last node of the sibling list that starts at n: the node the
\* NextSibling links lead to (at most fuel links are followed).
RECURSIVE ListEnd(_, _, _)
ListEnd(ns, n, fuel) ==
    IF ns[n].NextSibling = nil \/ fuel = 0 THEN n
    ELSE ListEnd(ns, ns[n].NextSibling, fuel - 1)

\* The cyclic link of the first child of every parent is its last child.
SiblingList(ns) ==
    \A p \in DOMAIN ns :
        ns[p].FirstChild # nil =>
            /\ LastChild(ns, p) = ListEnd(ns, ns[p].FirstChild, Len(ns))
            /\ ns[LastChild(ns, p)].NextSibling = nil

\* C11: after any sequence of AppendChild and Remove, the first child's
\* PrevSiblingCyclic is the last child and the last child's NextSibling is
\* nil, for every node that has children.
C11_SiblingListInvariant == pc = "tree" => SiblingList(nodes)

\* Both trees are prepared and Compare has not started.
BothPrepared == pc = "prepared"

\* The ancestors of n from the root down.
RECURSIVE PathAbove(_, _)
PathAbove(ns, n) ==
    IF ns[n].Parent = nil THEN <<>>
    ELSE Append(PathAbove(ns, ns[n].Parent), ns[n].Parent)

\* The first k of the segments segs with a "/" between two of them.
RECURSIVE Slashed(_, _)
Slashed(segs, k) ==
    IF k = 0 THEN <<>>
    ELSE IF k = 1 THEN segs[1]
    ELSE Slashed(segs, k - 1) \o <<"/">> \o segs[k]

\* The segments a node adds after those of its ancestors: its name when
\* it has one, then the textual tag of its type.
OwnSegments(ns, n) ==
    (IF ns[n].Name # <<>> THEN <<ns[n].Name>> ELSE <<>>) \o <<(<<ns[n].Type>>)>>

NamesAbove(ns, n) ==
    LET path == PathAbove(ns, n) IN [i \in DOMAIN path |-> ns[path[i]].Name]

NonEmpty(name) == name # <<>>

\* The signature with an empty segment for every nameless ancestor.
SignatureWithAll(ns, n) ==
    IF ns[n].Parent = nil THEN <<"/">>
    ELSE LET segs == NamesAbove(ns, n) \o OwnSegments(ns, n)
         IN Slashed(segs, Len(segs))

\* The signature that leaves the nameless ancestors out.
SignatureWithNamed(ns, n) ==
    IF ns[n].Parent = nil THEN <<"/">>
    ELSE LET segs == SelectSeq(NamesAbove(ns, n), NonEmpty) \o OwnSegments(ns, n)
         IN Slashed(segs, Len(segs))

\* C12 as stated: the signature of a prepared node is "/" for a node
\* without parent, and otherwise the non-empty names of its ancestors from
\* the root down, its own name when non-empty and its type tag, joined by
\* "/".
C12_SignatureFormat ==
    BothPrepared =>
        \A n \in DOMAIN nodes : nodes[n].Signature = SignatureWithNamed(nodes, n)

\* C12 amended: the name of every ancestor is a segment, an empty name an
\* empty segment, so that below a nameless document a signature starts
\* with "/".
C12_SignatureFormatAllNames ==
    BothPrepared =>
        \A n \in DOMAIN nodes : nodes[n].Signature = SignatureWithAll(nodes, n)

\* A prepared attribute three levels below a nameless document, beside a
\* nameless data node.
C12_Witness ==
    /\ BothPrepared
    /\ \E n, m \in DOMAIN nodes :
          /\ Len(PathAbove(nodes, n)) = 3
          /\ nodes[n].Type = Attribute
          /\ nodes[PathAbove(nodes, n)[1]].Name = <<>>
          /\ nodes[n].Signature = SignatureWithAll(nodes, n)
          /\ nodes[n].Signature # SignatureWithNamed(nodes, n)
          /\ nodes[m].Type = Data /\ nodes[m].Parent # nil
          /\ nodes[m].Signature = SignatureWithAll(nodes, m)

\* sig without its last "/"-delimited segment and the "/" before it.
StripLast(sig) ==
    LET slashes == {i \in DOMAIN sig : sig[i] = "/"}
    IN IF slashes = {} THEN <<>>
       ELSE SubSeq(sig, 1, (CHOOSE i \in slashes : \A j \in slashes : j <= i) - 1)

IsPrefix(a, b) == Len(a) <= Len(b) /\ SubSeq(b, 1, Len(a)) = a

\* C13 as stated: for every non-root node n of a prepared tree,
\* signature(n) without its last segment is a prefix of
\* signature(parent(n)).
C13_SignaturePrefixLaw ==
    BothPrepared =>
        \A n \in DOMAIN nodes :
            nodes[n].Parent # nil =>
                IsPrefix(StripLast(nodes[n].Signature),
                         nodes[nodes[n].Parent].Signature)

\* C13 amended: for every non-root node n of a prepared tree,
\* signature(parent(n)) without its last segment is a prefix of
\* signature(n).
C13_ParentPrefixLaw ==
    BothPrepared =>
        \A n \in DOMAIN nodes :
            nodes[n].Parent # nil =>
                IsPrefix(StripLast(nodes[nodes[n].Parent].Signature),
                         nodes[n].Signature)

\* A prepared named node below a named element: the parent's signature
\* without its tag is a proper, non-empty prefix of the node's, and the
\* node's without its tag is no prefix of the parent's.
C13_Witness ==
    /\ BothPrepared
    /\ \E n \in DOMAIN nodes :
          /\ nodes[n].Parent # nil /\ nodes[n].Name # <<>>
          /\ nodes[nodes[n].Parent].Parent # nil
          /\ StripLast(nodes[nodes[n].Parent].Signature) # <<>>
          /\ IsPrefix(StripLast(nodes[nodes[n].Parent].Signature), nodes[n].Signature)
          /\ ~IsPrefix(StripLast(nodes[n].Signature), nodes[nodes[n].Parent].Signature)

\* The nodes of the subtree of n.
RECURSIVE Subtree(_, _)
Subtree(ns, n) ==
    {n} \cup UNION {Subtree(ns, c) : c \in SeqToSet(Children(ns, n))}

\* A call of Prepare has returned nil.
PrepareReturned == pc = "built" /\ prep.run >= 1 /\ err = "nil"

\* The position of node n in the sequence finalised (0 when it is not in it).
FinalisedAt(n) ==
    IF \E i \in DOMAIN finalised : finalised[i] = n
    THEN CHOOSE i \in DOMAIN finalised : finalised[i] = n
    ELSE 0

\* No node is finalised twice, and none before one of its children.
FinalisedInPostOrder ==
    /\ \A i, j \in DOMAIN finalised : i # j => finalised[i] # finalised[j]
    /\ \A i \in DOMAIN finalised :
          \A c \in SeqToSet(Children(nodes, finalised[i])) :
              FinalisedAt(c) # 0 /\ FinalisedAt(c) < i

\* C14: Prepare(root) finalises every node reachable from root exactly once
\* and after all of its children; afterwards each of these nodes has a
\* non-empty signature and the hash of its type, name, value and the final
\* hashes of its children in sibling order.
C14_PreparePostOrder ==
    /\ FinalisedInPostOrder
    /\ PrepareReturned =>
          /\ SeqToSet(finalised) = Subtree(nodes, prep.root)
          /\ \A n \in Subtree(nodes, prep.root) :
                /\ nodes[n].Signature # NoBytes
                /\ nodes[n].Hash # NoHash
                /\ nodes[n].Hash.type = nodes[n].Type
                /\ nodes[n].Hash.data = nodes[n].Name \o nodes[n].Value
                /\ nodes[n].Hash.kids =
                      [i \in DOMAIN Children(nodes, n) |->
                          nodes[Children(nodes, n)[i]].Hash]

\* The first call has returned on a tree of three levels with two siblings
\* that have children.
C14_Witness ==
    /\ PrepareReturned /\ prep.run = 1
    /\ SeqToSet(finalised) = Subtree(nodes, prep.root)
    /\ \E a, b \in Subtree(nodes, prep.root) :
          /\ a # b /\ nodes[a].Parent = nodes[b].Parent
          /\ nodes[a].FirstChild # nil /\ nodes[b].FirstChild # nil
          /\ nodes[nodes[a].Parent].Parent = prep.root
          /\ FinalisedAt(nodes[a].FirstChild) < FinalisedAt(a)
          /\ FinalisedAt(a) < FinalisedAt(nodes[a].Parent)

\* Subtrees a and b have the same types, names and values in the same
\* child order.
SameSubtree(ns, a, b) == LeafDiffs(ns, a, b) = 0

\* C15: a second Prepare of a prepared tree leaves the signature and the
\* hash of every node unchanged, and two prepared subtrees with the same
\* types, names, values and child order have equal hashes.
C15_HashDeterminism ==
    /\ prep.run >= 3 =>
          \A n \in DOMAIN nodes :
              /\ nodes[n].Signature = before[n].Signature
              /\ nodes[n].Hash = before[n].Hash
    /\ (PrepareReturned /\ prep.run >= 2) =>
          \A a, b \in DOMAIN nodes :
              SameSubtree(nodes, a, b) => nodes[a].Hash = nodes[b].Hash

\* Both trees have been prepared twice; an inner node of the left tree and
\* one of the right tree are the same subtree.
C15_Witness ==
    /\ PrepareReturned /\ prep.run = PrepareRuns
    /\ before # <<>>
    /\ \A n \in DOMAIN nodes : nodes[n].Hash = before[n].Hash /\ nodes[n].Hash # NoHash
    /\ \E a \in Subtree(nodes, roots[1]), b \in Subtree(nodes, roots[2]) :
          /\ nodes[a].FirstChild # nil /\ nodes[a].Parent # nil
          /\ SameSubtree(nodes, a, b)
          /\ nodes[a].Hash = nodes[b].Hash

\* The root of the tree n belongs to, and the number of nodes on the path
\* from that root down to n.
RECURSIVE TopOf(_, _)
TopOf(ns, n) == IF ns[n].Parent = nil THEN n ELSE TopOf(ns, ns[n].Parent)

RECURSIVE Depth(_, _)
Depth(ns, n) == IF ns[n].Parent = nil THEN 1 ELSE 1 + Depth(ns, ns[n].Parent)

\* The nesting depth of the tree rooted at root: the longest such path.
NestingDepth(ns, root) ==
    LET depths == {Depth(ns, n) : n \in {m \in DOMAIN ns : TopOf(ns, m) = root}}
    IN CHOOSE d \in depths : \A e \in depths : e <= d

\* C16: Prepare returns a non-nil error exactly when the nesting depth of
\* the tree exceeds maxStackSize; a tree within the bound gets nil, however
\* many siblings its nodes have.
C16_StackBoundIsDepth ==
    /\ pc = "failed" =>
         \E k \in 1..2 : NestingDepth(nodes, roots[k]) > maxStackSize
    /\ pc = "preparedLeft" => NestingDepth(nodes, roots[1]) <= maxStackSize
    /\ pc = "prepared" => NestingDepth(nodes, roots[2]) <= maxStackSize

\* C17: when a Push of Compare's walk finds its stack full, Compare returns
\* a non-nil error and no deltas; it returns no script from a walk that
\* skipped nodes.
C17_DepthExceededInDiff ==
    Returned /\ pushFailed => err # "nil" /\ script = <<>>

\* The pairs of children of a and b at the same position.
PosPairs(ns, a, b) ==
    LET lc == Children(ns, a)
        rc == Children(ns, b)
    IN {<<lc[i], rc[i]>> : i \in DOMAIN lc \cap DOMAIN rc}

SameElements(ns, p) ==
    /\ ns[p[1]].Type = Element /\ ns[p[2]].Type = Element
    /\ ns[p[1]].Signature = ns[p[2]].Signature

EqualPairs(ns, a, b) ==
    {p \in PosPairs(ns, a, b) : SameElements(ns, p) /\ ns[p[1]].Hash = ns[p[2]].Hash}

DifferentPairs(ns, a, b) ==
    {p \in PosPairs(ns, a, b) : SameElements(ns, p) /\ ns[p[1]].Hash # ns[p[2]].Hash}

\* The sibling levels reduceMatchingSpace(a, b) visits, as pairs of parents.
RECURSIVE Levels(_, _, _)
Levels(ns, a, b) ==
    {<<a, b>>} \cup UNION {Levels(ns, p[1], p[2]) : p \in DifferentPairs(ns, a, b)}

Attached(ns, n, parent) ==
    ns[n].Parent = parent /\ n \in SeqToSet(Children(ns, parent))

Detached(ns, n, parent) ==
    ns[n].Parent = nil /\ n \notin SeqToSet(Children(ns, parent))

PairAttached(ns, p, lv) == Attached(ns, p[1], lv[1]) /\ Attached(ns, p[2], lv[2])
PairDetached(ns, p, lv) == Detached(ns, p[1], lv[1]) /\ Detached(ns, p[2], lv[2])

\* Compare has called reduceMatchingSpace(left, right): prepared is the
\* store before the call, nodes the store after it.
Reduced ==
    /\ pc \in {"outer", "inner", "assign", "done"}
    /\ prepared[left].Hash # prepared[right].Hash

\* C18: at every sibling level reduceMatchingSpace visits, of the k >= 1
\* pairs of Element children at the same position with equal signature and
\* equal hash exactly k - 1 are detached on both sides and exactly one stays
\* attached; the pairs with equal signature and different hashes stay
\* attached and their children are a visited level.
C18_ReducerPolicy ==
    Reduced =>
      \A lv \in Levels(prepared, left, right) :
        LET eq == EqualPairs(prepared, lv[1], lv[2])
        IN /\ eq # {} =>
                /\ Cardinality({p \in eq : PairDetached(nodes, p, lv)})
                     = Cardinality(eq) - 1
                /\ Cardinality({p \in eq : PairAttached(nodes, p, lv)}) = 1
           /\ \A p \in DifferentPairs(prepared, lv[1], lv[2]) :
                PairAttached(nodes, p, lv)

\* A level with two pairs of equal hash, one detached and one kept, and a
\* pair of different hashes whose children are visited and hold a pair of
\* equal hash that is kept.
C18_Witness ==
    /\ Reduced
    /\ \E lv \in Levels(prepared, left, right) :
         /\ Cardinality(EqualPairs(prepared, lv[1], lv[2])) >= 2
         /\ \E p \in EqualPairs(prepared, lv[1], lv[2]) : PairDetached(nodes, p, lv)
         /\ \E p \in EqualPairs(prepared, lv[1], lv[2]) : PairAttached(nodes, p, lv)
    /\ \E lv \in Levels(prepared, left, right) :
         /\ lv # <<left, right>>
         /\ \E p \in EqualPairs(prepared, lv[1], lv[2]) : PairAttached(nodes, p, lv)

\* Compare with the call of reduceMatchingSpace (line 145) left out: the
\* locals at the start of the walk, the matchings the loop of lines 189-196
\* can end with from each of the sets of (matching, pairs left, group), and
\* the scripts that can be returned.
UnreducedStart(ns, a, b) ==
    [leftS |-> <<>>, rightS |-> <<>>, l |-> a, r |-> b,
     leftLastVisited |-> nil, rightLastVisited |-> nil,
     distTbl |-> NoDist, minCostM |-> Add(ns, {}, nodePair(a, b)),
     pc |-> "outer", pushFailed |-> FALSE, matchLog |-> NoLog]

AssignNext(ns, t) ==
    LET group(c) == {d \in t.costs : ns[d.Left].Signature = ns[c.Left].Signature}
    IN IF t.costs = {} THEN {t}
       ELSE {[mcm |-> Add(ns, t.mcm, nodePair(c.Left, c.Right)),
              costs |-> t.costs \ {c},
              cur |-> IF group(c) = {c} THEN NoBytes ELSE ns[c.Left].Signature] :
                c \in {d \in t.costs :
                         /\ t.cur = NoBytes \/ ns[d.Left].Signature = t.cur
                         /\ d \in SortFirst(group(d))}}

RECURSIVE AssignAll(_, _)
AssignAll(ns, ts) ==
    IF \A t \in ts : t.costs = {} THEN {t.mcm : t \in ts}
    ELSE AssignAll(ns, UNION {AssignNext(ns, t) : t \in ts})

UnreducedScripts(ns, a, b) ==
    LET ends == CompareLoop(ns, b, {UnreducedStart(ns, a, b)},
                            3 * Len(ns) * (3 * Len(ns) + 3))
        mcms == AssignAll(ns, {[mcm |-> e.minCostM,
                                costs |-> {costPair(q, e.distTbl[q]) :
                                             q \in DOMAIN e.distTbl},
                                cur |-> NoBytes] : e \in ends})
    IN {editScript(ns, a, b, m) : m \in mcms}

\* The operations of a script with their subject nodes.
DeltaSet(deltas) ==
    {<<deltas[i].Operation, deltas[i].Subject>> : i \in DOMAIN deltas}

\* C19: when reduceMatchingSpace has detached pairs, the script Compare
\* returns has the operations and subject nodes of a script that the same
\* walk, matching and editScript return on the trees as they were.
C19_ReductionSoundness ==
    Walked /\ nodes # prepared =>
        \E s \in UnreducedScripts(prepared, left, right) :
            DeltaSet(s) = DeltaSet(script)

\* The lines of a []byte: the runs of bytes each line feed ends, and the
\* bytes after the last line feed if there are any.
Lines(bytes) ==
    LET ends == {i \in DOMAIN bytes : bytes[i] = "\n"}
                  \cup (IF bytes # <<>> /\ bytes[Len(bytes)] # "\n"
                        THEN {Len(bytes) + 1} ELSE {})
        feedsBelow(e) == {f \in ends : f < e}
        start(e) == IF feedsBelow(e) = {} THEN 1
                    ELSE 1 + CHOOSE f \in feedsBelow(e) : \A g \in feedsBelow(e) : g <= f
        end(k) == CHOOSE e \in ends : Cardinality(feedsBelow(e)) = k - 1
    IN [k \in 1..Cardinality(ends) |-> SubSeq(bytes, start(end(k)), end(k) - 1)]

\* A line feed in a byte slice.
HasLineFeed(bytes) == \E i \in DOMAIN bytes : bytes[i] = "\n"

Encoded == pc = "encoded"

\* C20: on a writer that takes every write, Encode writes the single line
\* "No difference." exactly when the delta list is empty, and otherwise one line per delta in list order:
\* Update('subject'->'object') for an Update, <Op>('subject') for any
\* other operation, the nodes printed by Node.String.
C20_PlainTextEncoding ==
    Encoded /\ ~writeFailed =>
        LET lines == Lines(out)
        IN /\ lines = << <<"No difference.">> >> <=> script = <<>>
           /\ script # <<>> =>
                /\ Len(lines) = Len(script)
                /\ \A i \in DOMAIN script :
                     lines[i] =
                       IF script[i].Operation = Update
                       THEN <<script[i].Operation, "('">>
                              \o String(nodes, script[i].Subject) \o <<"'->'">>
                              \o String(nodes, script[i].Object) \o <<"')">>
                       ELSE <<script[i].Operation, "('">>
                              \o String(nodes, script[i].Subject) \o <<"')">>

\* An Update of a text of two lines, prepared, was encoded after or before
\* a delta of another operation.
C20_Witness ==
    /\ Encoded /\ ~writeFailed
    /\ Len(script) >= 2
    /\ \E i \in DOMAIN script :
         /\ script[i].Operation = Update
         /\ HasLineFeed(nodes[script[i].Subject].Value)
         /\ nodes[script[i].Subject].Hash # NoHash
    /\ \E i \in DOMAIN script : script[i].Operation # Update

\* C21: when a Write of the writer fails during Encode, Encode returns a
\* non-nil error.
C21_EncoderFailureSurfaced ==
    Encoded /\ writeFailed => err # "nil"

\* Compare is in or past its walk of lines 153-180.
InWalk == pc \in {"outer", "inner", "assign"} \/ Walked

Leaf(ns, n) == ns[n].FirstChild = nil

\* C22: every entry of distTbl is for a pair of equal signatures; it is 0
\* for equal hashes, and the pair was then offered to the matching (it is
\* in it, or its left or right node was matched already); otherwise it is 1
\* for two leaves, the number of children of r when only l is a leaf and
\* the number of children of l when only r is a leaf.
C22_MatchBaseCases ==
    InWalk =>
        \A p \in DOMAIN distTbl :
            /\ nodes[p[1]].Signature = nodes[p[2]].Signature
            /\ IF nodes[p[1]].Hash = nodes[p[2]].Hash
               THEN /\ distTbl[p] = 0
                    /\ \/ p \in minCostM
                       \/ HasLeft(minCostM, p[1])
                       \/ HasRight(minCostM, p[2])
               ELSE /\ Leaf(nodes, p[1]) /\ Leaf(nodes, p[2]) => distTbl[p] = 1
                    /\ Leaf(nodes, p[1]) /\ ~Leaf(nodes, p[2]) =>
                          distTbl[p] = Len(Children(nodes, p[2]))
                    /\ ~Leaf(nodes, p[1]) /\ Leaf(nodes, p[2]) =>
                          distTbl[p] = Len(Children(nodes, p[1]))

\* The walk is over and distTbl has an entry of each of the four kinds,
\* the one-sided ones with more than one child.
C22_Witness ==
    /\ pc = "assign"
    /\ \E p \in DOMAIN distTbl : nodes[p[1]].Hash = nodes[p[2]].Hash
    /\ \E p \in DOMAIN distTbl :
         /\ nodes[p[1]].Hash # nodes[p[2]].Hash
         /\ Leaf(nodes, p[1]) /\ Leaf(nodes, p[2])
    /\ \E p \in DOMAIN distTbl :
         /\ Leaf(nodes, p[1]) /\ Len(Children(nodes, p[2])) > 1
    /\ \E p \in DOMAIN distTbl :
         /\ Leaf(nodes, p[2]) /\ Len(Children(nodes, p[1])) > 1

\* The entries of distTbl match computed past its base cases.
NonLeafPairs ==
    {p \in DOMAIN distTbl :
        /\ nodes[p[1]].Hash # nodes[p[2]].Hash
        /\ ~Leaf(nodes, p[1]) /\ ~Leaf(nodes, p[2])}

\* No left child and no right child is in two pairs of acc.
OneToOne(acc) ==
    \A c, d \in acc : c # d => c.Left # d.Left /\ c.Right # d.Right

\* acc can be what a walk of costs in ascending order of cost accepts: every
\* pair left out shares a child with an accepted pair that costs no more.
AcceptedAscending(costs, acc) ==
    \A c \in costs \ acc :
        \E a \in acc : (a.Left = c.Left \/ a.Right = c.Right) /\ a.Cost <= c.Cost

\* The sets of child pairs of p that match can have accepted.
Acceptable(p) ==
    LET costs == ChildCosts(nodes, p[1], p[2], distTbl)
    IN {acc \in SUBSET costs : OneToOne(acc) /\ AcceptedAscending(costs, acc)}

\* C23: the distance of a pair of non-leaf nodes of different hashes is the
\* sum of the costs of child pairs accepted in ascending order of cost, no
\* child twice, plus leftCount + rightCount - 2 * mapped; no distance is
\* negative.
C23_NonLeafDistance ==
    InWalk =>
        /\ \A p \in NonLeafPairs :
              \E acc \in Acceptable(p) :
                  distTbl[p] = SumCost(acc) + Len(Children(nodes, p[1]))
                                 + Len(Children(nodes, p[2]))
                                 - 2 * Cardinality(acc)
        /\ \A p \in DOMAIN distTbl : distTbl[p] >= 0

\* The walk is over and match has, for some pair, accepted two child pairs
\* of a positive sum of costs and left a child pair out.
C23_Witness ==
    /\ pc = "assign"
    /\ \E p \in NonLeafPairs :
         \E acc \in Acceptable(p) :
             /\ distTbl[p] = SumCost(acc) + Len(Children(nodes, p[1]))
                                + Len(Children(nodes, p[2]))
                                - 2 * Cardinality(acc)
             /\ Cardinality(acc) >= 2
             /\ SumCost(acc) > 0
             /\ acc # ChildCosts(nodes, p[1], p[2], distTbl)

\* What an assignment acc of the child pairs of p costs: the distances of
\* its pairs and 1 for every child of either node that is in none.
AssignmentCost(p, acc) ==
    SumCost(acc) + Len(Children(nodes, p[1])) + Len(Children(nodes, p[2]))
      - 2 * Cardinality(acc)

\* C24: the distance of a pair of non-leaf nodes of different hashes is the
\* least cost of a one-to-one assignment of their same-signature children.
C24_GreedyIsMinimum ==
    InWalk =>
        \A p \in NonLeafPairs :
            LET assignments ==
                  {acc \in SUBSET ChildCosts(nodes, p[1], p[2], distTbl) :
                      OneToOne(acc)}
            IN /\ \E acc \in assignments : distTbl[p] = AssignmentCost(p, acc)
               /\ \A acc \in assignments : distTbl[p] <= AssignmentCost(p, acc)

\* The walk of lines 153-180 is over.
WalkEnded == pc = "assign" \/ (pc = "done" /\ matchLog.once # {})

\* C25: match is never called twice with a pair and never reads a child
\* pair of equal signatures that has no entry in distTbl; when the walk is
\* over it has been called with (left, right) and, for every pair it was
\* called with, with every child of the one node and the other node, that
\* is with every pair of nodes reachable from left and from right.
C25_PostOrderAvailability ==
    /\ matchLog.again = {} /\ matchLog.missing = {}
    /\ WalkEnded =>
         /\ nodePair(left, right) \in matchLog.once
         /\ \A p \in matchLog.once :
              /\ \A c \in SeqToSet(Children(nodes, p[1])) :
                    nodePair(c, p[2]) \in matchLog.once
              /\ \A c \in SeqToSet(Children(nodes, p[2])) :
                    nodePair(p[1], c) \in matchLog.once

\* C26: in the matching handed to editScript no left node is paired with
\* two right nodes and no right node with two left nodes.
C26_MatchingOneToOne ==
    Walked =>
        \A p, q \in minCostM : (p[1] = q[1]) <=> (p[2] = q[2])

\* C27: when Compare returns no delta, the right tree is the left tree with
\* siblings permuted at any level (equal types, names and values).
C27_EmptyMeansEqual ==
    (Returned /\ script = <<>>) => PermEq(prepared, left, right)

\* C28: when Compare returns deltas, their number is the distance distTbl
\* has for the pair (left, right).
C28_ScriptLengthIsDistance ==
    (Walked /\ script # <<>>) =>
        /\ Has(distTbl, nodePair(left, right))
        /\ Len(script) = distTbl[nodePair(left, right)]

\* C29: the walk of Compare ends: from the locals it is at, no run of its
\* loops comes back to locals it has had.
C29_CompareTerminates ==
    pc \in {"outer", "inner"} => ~Spins(nodes, right, {WalkState}, 1)

\* The nodes reachable from the roots of the two trees.
Retained(ns) == Subtree(ns, roots[1]) \cup Subtree(ns, roots[2])

\* The nodes reduceMatchingSpace has taken out of the child list of a node
\* that is still reachable.
DetachedNodes ==
    {n \in Retained(prepared) \ Retained(nodes) :
        prepared[n].Parent \in Retained(nodes)}

\* The children of p are a well-formed sibling list.
WellFormedChildren(ns, p) ==
    LET kids == Children(ns, p)
    IN /\ \A c \in SeqToSet(kids) : ns[c].Parent = p
       /\ kids # <<>> =>
            /\ ns[kids[1]].PrevSiblingCyclic = kids[Len(kids)]
            /\ ns[kids[Len(kids)]].NextSibling = nil
            /\ \A i \in 2..Len(kids) : ns[kids[i]].PrevSiblingCyclic = kids[i - 1]

\* C30: after reduceMatchingSpace on two prepared trees, every node still
\* reachable from a root has a well-formed child list (the first child's
\* PrevSiblingCyclic is the last child, the last child's NextSibling is nil,
\* every child's Parent is the node), every detached node has nil Parent,
\* NextSibling and PrevSiblingCyclic, and every reachable node has the Hash
\* and the Signature it had before.
C30_ReductionKeepsTreesWellFormed ==
    Reduced =>
      /\ \A p \in Retained(nodes) :
            /\ WellFormedChildren(nodes, p)
            /\ nodes[p].Hash = prepared[p].Hash
            /\ nodes[p].Signature = prepared[p].Signature
      /\ \A n \in DetachedNodes :
            /\ nodes[n].Parent = nil
            /\ nodes[n].NextSibling = nil
            /\ nodes[n].PrevSiblingCyclic = nil

\* A first child and a later child that is not the first have been detached,
\* and their parents keep children.
C30_Witness ==
    /\ Reduced
    /\ \E n \in DetachedNodes :
         /\ prepared[prepared[n].Parent].FirstChild = n
         /\ nodes[prepared[n].Parent].FirstChild # nil
    /\ \E n \in DetachedNodes :
         /\ prepared[prepared[n].Parent].FirstChild # n
         /\ nodes[prepared[n].Parent].FirstChild # nil

====
